---- MODULE Spec2Model ----
(***************************************************************************)
(* Task-tracker backend: the sliding-window rate limiter                   *)
(* (src/middleware/rateLimiter.js) over a sorted-set store, and the task   *)
(* service (src/services/task.service.js) with its read-through cache      *)
(* (src/services/redis.service.js) and duplicate detection.                *)
(*                                                                         *)
(* Every await of a handler is one step of a request slot, so that         *)
(* requests interleave exactly where the event loop lets them.             *)
(***************************************************************************)
EXTENDS Integers, Sequences, FiniteSets, TLC

(***************************************************************************)
(* Bounds of the model.                                                    *)
(***************************************************************************)
\* number of requests that can be in flight at the same time (K)
MaxInFlight == 2
\* the max option handed to limit(max)
LimitMax == 2
\* number of times the clock advances in one behaviour
MaxTicks == 1
\* number of tasks the repository ever holds ids for
MaxTasks == 2
\* number of task-service calls made one after the other in one behaviour
MaxCalls == 2
\* number of task-service calls that race in one behaviour
MaxRaceCalls == 3
\* number of creations and filtered reads made one after the other in one behaviour
MaxFilterCalls == 3
\* number of calls of one user made one after the other in one behaviour
MaxOneCalls == 4
\* number of reads, creations, due-date updates and filtered reads of one user
\* made one after the other in one behaviour
MaxDueCalls == 4

(***************************************************************************)
(* Limiter configurations (the options of createLimiter).                  *)
(***************************************************************************)
\* limit(max, windowMs = 60000): createLimiter({ max, windowMs })
LimitCfg ==
  [ max |-> LimitMax, windowMs |-> 60000, keyGenerator |-> "default",
    skipSuccessfulRequests |-> FALSE, skipFailedRequests |-> FALSE ]

\* authLimiter(): 5 requests per 15 minutes, successful requests skipped
AuthCfg ==
  [ max |-> 5, windowMs |-> 15 * 60 * 1000, keyGenerator |-> "auth",
    skipSuccessfulRequests |-> TRUE, skipFailedRequests |-> FALSE ]

\* apiLimiter(): 100 requests per 15 minutes, mounted on /api before the routers
ApiCfg ==
  [ max |-> 100, windowMs |-> 15 * 60 * 1000, keyGenerator |-> "default",
    skipSuccessfulRequests |-> FALSE, skipFailedRequests |-> FALSE ]

\* taskCreationLimiter(): 10 requests per minute, keyed create:user:<id or ip>;
\* no route and no app.use mounts it
CreateCfg ==
  [ max |-> 10, windowMs |-> 60 * 1000, keyGenerator |-> "create",
    skipSuccessfulRequests |-> FALSE, skipFailedRequests |-> FALSE ]

(***************************************************************************)
(* Requests as the limiter sees them: client ip, authenticated user,       *)
(* submitted email.                                                        *)
(***************************************************************************)
NoUser == "nouser"
NoEmail == "noemail"
Ips == {"1.2.3.4"}
Users == {"U1"}
Emails == {"a@x", "b@x"}

\* the requests a limiter of configuration c can receive
ReqInputs(c) ==
  IF c.keyGenerator = "auth"
    THEN [ip : Ips, user : {NoUser}, email : Emails \cup {NoEmail}]
    ELSE [ip : Ips, user : Users \cup {NoUser}, email : {NoEmail}]

\* the requests of one client: those that share one key
OneClient(c) ==
  IF c.keyGenerator = "auth"
    THEN [ip : Ips, user : {NoUser}, email : {"a@x"}]
    ELSE [ip : Ips, user : {NoUser}, email : {NoEmail}]

\* a key of authLimiter that leaves the email out
keyGeneratorByIp(c, q) ==
  IF c.keyGenerator = "auth"
    THEN <<"ratelimit", "auth", q.ip, "unknown">>
    ELSE IF q.user # NoUser
      THEN <<"ratelimit", "user", q.user>>
      ELSE <<"ratelimit", "ip", q.ip>>

\* keyGenerator of createLimiter and of authLimiter, prefixed by ratelimit:
keyGenerator(c, q) ==
  IF c.keyGenerator = "auth"
    THEN <<"ratelimit", "auth", q.ip, IF q.email = NoEmail THEN "unknown" ELSE q.email>>
    ELSE IF q.user # NoUser
      THEN <<"ratelimit", "user", q.user>>
      ELSE <<"ratelimit", "ip", q.ip>>

AllKeys ==
  {keyGenerator(LimitCfg, q) : q \in ReqInputs(LimitCfg)}
    \cup {keyGenerator(AuthCfg, q) : q \in ReqInputs(AuthCfg)}

\* status codes a handler answers with (success, failure) and the error path's
StatusCodes == {200, 401}

VARIABLES
  cfg,      \* the options of the limiter under check
  clock,    \* Date.now(), in milliseconds
  ticks,    \* how many times the clock advanced
  window,   \* key -> the sorted set of members <<score, nonce>>
  expiry,   \* key -> the time the key expires at, NoExpiry when none is set
  req,      \* slot -> the request in that slot and its position in the middleware
  last,     \* what the most recent call of next or of res.send did, and why
  allOk,    \* history: every handler so far answered with a status below 400
  tasks,    \* the task collection, in creation order
  nextId,   \* the next task id the repository hands out
  cache,    \* cache key -> the entry stored under it, NoEntry when absent
  proc,     \* slot -> the task-service call it runs and its position
  done,     \* what the most recent task-service call returned or threw
  calls     \* how many task-service calls were made

limVars == <<cfg, window, expiry, req, last, allOk>>
timeVars == <<clock, ticks>>
taskVars == <<tasks, nextId, cache, proc, done, calls>>
vars == <<limVars, timeVars, taskVars>>

Slots == 1..MaxInFlight
NoExpiry == 0 - 1
NoMember == <<>>
NoKey == <<>>

\* no request
NoReq == [ip |-> "", user |-> NoUser, email |-> NoEmail]

\* a slot: where its request stands, and what the closure of the middleware holds
\* removed is what zremrangebyscore answered: the number of entries it removed;
\* q is the request itself
IdleReq ==
  [ pc |-> "idle", key |-> NoKey, now |-> 0, requestCount |-> 0 - 1,
    member |-> NoMember, wrapped |-> FALSE, removed |-> 0, q |-> NoReq ]

\* nothing has called next or res.send yet
NoLast ==
  [ out |-> "none", requestCount |-> 0 - 1, called |-> FALSE, cause |-> "none",
    error |-> "none", statusCode |-> 0, retryAfter |-> 0 - 1, header |-> 0 - 1,
    remaining |-> 0 - 1, limit |-> 0 - 1, sends |-> 0, counted |-> FALSE ]

(***************************************************************************)
(* The store's sorted-set commands.                                        *)
(***************************************************************************)
\* a range removal that leaves the entry whose score equals max in place
zremrangebyscoreOpen(set, min, max) == {m \in set : ~(min <= m[1] /\ m[1] < max)}

\* ZREMRANGEBYSCORE key min max: both ends are inclusive
zremrangebyscore(set, min, max) == {m \in set : ~(min <= m[1] /\ m[1] <= max)}

\* a count that misses one entry
zcardShort(set) == IF set = {} THEN 0 ELSE Cardinality(set) - 1

\* ZCARD key
zcard(set) == Cardinality(set)

\* ZRANGE key 0 0 WITHSCORES: the member of lowest score, then its score
zrange(set) ==
  IF set = {} THEN <<>>
  ELSE LET m == CHOOSE x \in set : \A y \in set :
                  x[1] < y[1] \/ (x[1] = y[1] /\ x[2] <= y[2])
       IN <<m, m[1]>>

\* `${now}:${Math.random()}`: a member no entry of the store and no request holds
FreshMember(now) ==
  LET used == UNION {window[k] : k \in AllKeys}
                \cup {req[s].member : s \in Slots}
      n == CHOOSE i \in 0..(Cardinality(used) + 1) :
             /\ <<now, i>> \notin used
             /\ \A j \in 0..(Cardinality(used) + 1) : <<now, j>> \notin used => i <= j
  IN <<now, n>>

\* Math.ceil(a / b) for b > 0
Ceil(a, b) == -((-a) \div b)

\* a retry-after that is rounded down
RetryAfterFloor(oldestRequest, now) ==
  IF Len(oldestRequest) > 0
    THEN (oldestRequest[2] + cfg.windowMs - now) \div 1000
    ELSE cfg.windowMs \div 1000

\* lines 55-59: the retry-after of a rejected request
RetryAfter(oldestRequest, now) ==
  IF Len(oldestRequest) > 0
    THEN Ceil(oldestRequest[2] + cfg.windowMs - now, 1000)
    ELSE Ceil(cfg.windowMs, 1000)

\* a remaining count that leaves the request itself out
RemainingOff(requestCount) ==
  IF cfg.max - requestCount > 0 THEN cfg.max - requestCount ELSE 0

\* line 79
Remaining(requestCount) ==
  IF cfg.max - requestCount - 1 > 0 THEN cfg.max - requestCount - 1 ELSE 0

\* a limit test that lets the request through when the count equals max
OverLimitStrict(requestCount) == requestCount > cfg.max

\* a limit test that never rejects
OverLimitNever(requestCount) == FALSE

\* line 51
OverLimit(requestCount) == requestCount >= cfg.max

(***************************************************************************)
(* The middleware returned by createLimiter, one step per await.           *)
(***************************************************************************)
\* redisClient.status as the middleware finds it: the connection comes and goes
ClientStatus == {"ready", "reconnecting"}

Evaluating == {"zremrangebyscore", "zcard", "zrange", "zadd", "expire"}

\* the store deletes a key when its sorted set becomes empty
ExpiryOf(k, set) == IF set = {} THEN NoExpiry ELSE expiry[k]

\* a middleware that ends without calling next
NeverPassed(r, called, cause, wrapped) ==
  /\ req' = [req EXCEPT ![r].pc = "handler", ![r].wrapped = wrapped]
  /\ last' = last

\* next() is called: the request goes on to its handler. Lines 78-80 set the
\* headers on the one path that reaches them, the one no store call failed on
Passed(r, called, cause, wrapped) ==
  /\ req' = [req EXCEPT ![r].pc = "handler", ![r].wrapped = wrapped]
  /\ last' = [NoLast EXCEPT !.out = "next",
                            !.requestCount = req[r].requestCount,
                            !.called = called, !.cause = cause,
                            !.limit = IF cause = "none" THEN cfg.max ELSE 0 - 1,
                            !.remaining = IF cause = "none"
                                            THEN Remaining(req[r].requestCount)
                                            ELSE 0 - 1]

\* a catch that hands every error on to next
FailClosed(r) ==
  /\ req' = [req EXCEPT ![r] = IdleReq]
  /\ last' = [NoLast EXCEPT !.out = "next", !.called = TRUE, !.cause = "store",
                            !.error = "RateLimitError", !.statusCode = 429]

\* lines 100-107: an error that is no RateLimitError is logged and next() is called
FailOpen(r) == Passed(r, TRUE, "store", FALSE)

\* lines 34-43: the readiness test, then key and now
Begin(r, q, status) ==
  /\ req[r].pc = "idle"
  /\ \A s \in Slots : s < r => req[s].pc # "idle"
  /\ IF status # "ready"
       THEN Passed(r, FALSE, "notready", FALSE)
       ELSE /\ req' = [req EXCEPT ![r].pc = "zremrangebyscore",
                                  ![r].key = keyGenerator(cfg, q),
                                  ![r].q = q,
                                  ![r].now = clock]
            /\ UNCHANGED last
  /\ UNCHANGED <<cfg, window, expiry, allOk, timeVars, taskVars>>

\* a request of one client arrives while others may be anywhere in the middleware
Start(r) == \E q \in OneClient(cfg), status \in ClientStatus : Begin(r, q, status)

\* a request of any client arrives once the one before it has been answered
StartAlone(r) ==
  /\ \A s \in Slots : req[s].pc = "idle"
  /\ \E q \in ReqInputs(cfg), status \in ClientStatus : Begin(r, q, status)

\* the attempts of one address that name an email
TwoEmails == [ip : Ips, user : {NoUser}, email : Emails]

\* an attempt for one of two emails arrives once the one before it has been answered
StartPair(r) ==
  /\ \A s \in Slots : req[s].pc = "idle"
  /\ \E q \in TwoEmails, status \in ClientStatus : Begin(r, q, status)

\* a request of one client arrives once the one before it has been answered
StartOne(r) ==
  /\ \A s \in Slots : req[s].pc = "idle"
  /\ \E q \in OneClient(cfg), status \in ClientStatus : Begin(r, q, status)

\* lines 45-46
Evict(r) ==
  /\ req[r].pc = "zremrangebyscore"
  /\ \E ok \in BOOLEAN :
       IF ok
         THEN LET k == req[r].key
                  kept == zremrangebyscore(window[k], 0, req[r].now - cfg.windowMs)
              IN /\ window' = [window EXCEPT ![k] = kept]
                 /\ expiry' = [expiry EXCEPT ![k] = ExpiryOf(k, kept)]
                 /\ req' = [req EXCEPT ![r].pc = "zcard",
                                       ![r].removed = zcard(window[k]) - zcard(kept)]
                 /\ UNCHANGED last
         ELSE FailOpen(r) /\ UNCHANGED <<window, expiry>>
  /\ UNCHANGED <<cfg, allOk, timeVars, taskVars>>

\* lines 48-51
Count(r) ==
  /\ req[r].pc = "zcard"
  /\ \E ok \in BOOLEAN :
       IF ok
         THEN LET requestCount == zcard(window[req[r].key])
              IN /\ req' = [req EXCEPT ![r].requestCount = requestCount,
                                       ![r].pc = IF OverLimit(requestCount)
                                                   THEN "zrange" ELSE "zadd"]
                 /\ UNCHANGED last
         ELSE FailOpen(r)
  /\ UNCHANGED <<cfg, window, expiry, allOk, timeVars, taskVars>>

\* a rejection that counts the rejected request: it adds an entry for it and
\* refreshes the expiry of the key
RejectCounting(r) ==
  /\ req[r].pc = "zrange"
  /\ \E ok \in BOOLEAN :
       IF ok
         THEN LET k == req[r].key
                  oldestRequest == zrange(window[k])
                  retryAfter == RetryAfter(oldestRequest, req[r].now)
              IN /\ window' = [window EXCEPT ![k] = @ \cup {FreshMember(req[r].now)}]
                 /\ expiry' = [expiry EXCEPT ![k] =
                                 clock + Ceil(cfg.windowMs, 1000) * 1000]
                 /\ req' = [req EXCEPT ![r] = IdleReq]
                 /\ last' = [NoLast EXCEPT
                      !.out = "next",
                      !.requestCount = req[r].requestCount, !.called = TRUE,
                      !.error = "RateLimitError", !.statusCode = 429,
                      !.retryAfter = retryAfter, !.header = retryAfter,
                      !.remaining = 0, !.limit = cfg.max]
         ELSE FailOpen(r) /\ UNCHANGED <<window, expiry>>
  /\ UNCHANGED <<cfg, allOk, timeVars, taskVars>>

\* lines 52-69 and 101-102: the headers, the RateLimitError, next(error)
Reject(r) ==
  /\ req[r].pc = "zrange"
  /\ \E ok \in BOOLEAN :
       IF ok
         THEN LET oldestRequest == zrange(window[req[r].key])
                  retryAfter == RetryAfter(oldestRequest, req[r].now)
              IN /\ req' = [req EXCEPT ![r] = IdleReq]
                 /\ last' = [NoLast EXCEPT
                      !.out = "next",
                      !.requestCount = req[r].requestCount, !.called = TRUE,
                      !.error = "RateLimitError", !.statusCode = 429,
                      !.retryAfter = retryAfter, !.header = retryAfter,
                      !.remaining = 0, !.limit = cfg.max]
         ELSE FailOpen(r)
  /\ UNCHANGED <<cfg, window, expiry, allOk, timeVars, taskVars>>

\* lines 71-72
Add(r) ==
  /\ req[r].pc = "zadd"
  /\ \E ok \in BOOLEAN :
       IF ok
         THEN LET m == FreshMember(req[r].now)
              IN /\ window' = [window EXCEPT ![req[r].key] = @ \cup {m}]
                 /\ req' = [req EXCEPT ![r].member = m, ![r].pc = "expire"]
                 /\ UNCHANGED last
         ELSE FailOpen(r) /\ UNCHANGED window
  /\ UNCHANGED <<cfg, expiry, allOk, timeVars, taskVars>>

\* an admission that leaves the expiry of the key as it finds it
ExpireKeeps(r) ==
  /\ req[r].pc = "expire"
  /\ \E ok \in BOOLEAN :
       IF ok
         THEN Passed(r, TRUE, "none",
                     ~cfg.skipSuccessfulRequests \/ ~cfg.skipFailedRequests)
         ELSE FailOpen(r)
  /\ UNCHANGED <<cfg, window, expiry, allOk, timeVars, taskVars>>

\* lines 74-99: the expiry, the headers, the wrapper around res.send, next()
Expire(r) ==
  /\ req[r].pc = "expire"
  /\ \E ok \in BOOLEAN :
       IF ok
         THEN LET k == req[r].key
              IN /\ expiry' = [expiry EXCEPT ![k] =
                      IF window[k] = {} THEN NoExpiry
                      ELSE clock + Ceil(cfg.windowMs, 1000) * 1000]
                 /\ Passed(r, TRUE, "none",
                           ~cfg.skipSuccessfulRequests \/ ~cfg.skipFailedRequests)
         ELSE FailOpen(r) /\ UNCHANGED expiry
  /\ UNCHANGED <<cfg, window, allOk, timeVars, taskVars>>

\* lines 89-90: the wrapper's test for taking the request out of the count
SkipThis(statusCode) ==
  \/ cfg.skipSuccessfulRequests /\ statusCode < 400
  \/ cfg.skipFailedRequests /\ statusCode >= 400

\* lines 85-96: res.send as the wrapper runs it. Line 92 names redisClient, which
\* no scope of the module binds: evaluating it throws a ReferenceError before
\* zrem and before originalSend are reached.
WrappedSend(r, statusCode) ==
  LET threw == req[r].wrapped /\ SkipThis(statusCode)
  IN /\ req' = [req EXCEPT ![r] = IF threw THEN [@ EXCEPT !.pc = "threw"] ELSE IdleReq]
     /\ last' = [NoLast EXCEPT !.out = IF threw THEN "threw" ELSE "sent",
                               !.statusCode = statusCode,
                               !.sends = IF threw THEN 0 ELSE 1,
                               !.counted = (req[r].member # NoMember
                                            /\ req[r].member \in window[req[r].key])]

\* the handler behind the limiter answers
Send(r) ==
  /\ req[r].pc = "handler"
  /\ \E statusCode \in StatusCodes :
       /\ WrappedSend(r, statusCode)
       /\ allOk' = (allOk /\ statusCode < 400)
  /\ UNCHANGED <<cfg, window, expiry, timeVars, taskVars>>

\* res.send threw: the controller's catch hands the error to the error handler,
\* which answers 500 through the same res.send
ErrorSend(r) ==
  /\ req[r].pc = "threw"
  /\ WrappedSend(r, 500)
  /\ UNCHANGED <<cfg, window, expiry, allOk, timeVars, taskVars>>

\* time passes; the store drops the keys whose expiry is reached
Tick ==
  /\ ticks < MaxTicks
  /\ \E d \in {1, cfg.windowMs} :
       /\ clock' = clock + d
       /\ window' = [k \in AllKeys |->
            IF expiry[k] # NoExpiry /\ clock + d >= expiry[k] THEN {} ELSE window[k]]
       /\ expiry' = [k \in AllKeys |->
            IF expiry[k] # NoExpiry /\ clock + d >= expiry[k] THEN NoExpiry ELSE expiry[k]]
  /\ ticks' = ticks + 1
  /\ UNCHANGED <<cfg, req, last, allOk, taskVars>>

(***************************************************************************)
(* The task service: its inputs, the documents of the repository, the      *)
(* entries of the cache.                                                   *)
(***************************************************************************)
Owners == {"U1", "U2"}
Titles == {"A"}

\* a field the payload does not carry, a path the document does not hold
Absent == "<absent>"
\* the null of a query
Null == "<null>"

DayMs == 24 * 60 * 60 * 1000

\* Date.getTime() of a string that is no date
NaN == 0 - 1
\* a dueDate that does not parse
BadDate == 0 - 2

\* a parse that takes a string that is no date for the epoch
DateOfAny(x) == IF x = BadDate THEN 0 ELSE x

\* new Date(x).getTime(), dates being given by their milliseconds
DateOf(x) == IF x = BadDate THEN NaN ELSE x

\* a test that takes every date for a valid one
isNaNNever(d) == FALSE

isNaN(d) == d = NaN

\* filters.dueDate when the query holds no dueDate, and when it holds an empty
\* one. NoDate is also the null the schema casts an empty dueDate to
NoDate == 0 - 3
EmptyDate == 0 - 4

\* model/Task schema: status is one of these
StatusEnum == {"pending", "completed"}

\* the payloads of createTask
TaskData ==
  [ title : Titles, description : {Absent, "", "d"},
    dueDate : {0, DayMs, DayMs + 1, BadDate}, status : StatusEnum \cup {Absent} ]

NoData == [title |-> Absent, description |-> Absent, dueDate |-> BadDate, status |-> Absent]

\* a task id of a shape the repository cannot cast to an ObjectId
BadId == 0 - 1
\* a well-formed id that no task ever has
NoSuchId == MaxTasks + 1
TaskIds == (1..MaxTasks) \cup {NoSuchId, BadId}

\* the updates of updateTask: the keys of the object, and the values under them
Updates ==
  { [keys |-> {"status"}, status |-> "completed", dueDate |-> 0],
    [keys |-> {"dueDate"}, status |-> Absent, dueDate |-> DayMs],
    [keys |-> {"dueDate"}, status |-> Absent, dueDate |-> BadDate],
    [keys |-> {"dueDate"}, status |-> Absent, dueDate |-> EmptyDate],
    [keys |-> {"owner"}, status |-> Absent, dueDate |-> 0],
    [keys |-> {"status", "owner"}, status |-> "completed", dueDate |-> 0] }

NoUpdates == [keys |-> {}, status |-> Absent, dueDate |-> 0]

\* the filters of getFilteredTasks: req.query
Filters ==
  [ status : {Absent, "", "pending", "archived"},
    dueDate : {NoDate, EmptyDate, DayMs, BadDate} ]

NoFilters == [status |-> Absent, dueDate |-> NoDate]

\* if (filters.status), if (filters.dueDate): undefined and '' are falsy
TruthyStatus(x) == x \notin {Absent, ""}
TruthyDate(d) == d \notin {NoDate, EmptyDate}

\* a cache key that all owners share
generateTasksCacheKeyShared(userId) == <<"tasks", "U1">>

\* redisService.generateTasksCacheKey
generateTasksCacheKey(userId) == <<"tasks", userId>>
CacheKeys == {generateTasksCacheKey(o) : o \in Owners}

\* an absent cache key. An entry holds the stored string and the time it expires
\* at; missed is history: a delete of this entry failed
NoEntry == [present |-> FALSE, val |-> <<>>, exp |-> 0, missed |-> FALSE]

\* the default expireInSeconds of RedisService.set, which getTasks also passes
CacheTtlSeconds == 3600

\* a slot of the task service: the call, its arguments, its position, its locals;
\* logged holds the cache commands whose error RedisService wrote to console.error
IdleProc ==
  [ op |-> "none", pc |-> "idle", userId |-> Absent, taskData |-> NoData,
    taskId |-> NoSuchId, updates |-> NoUpdates, docs |-> <<>>, logged |-> {},
    filters |-> NoFilters ]

\* no result
NoVal == [kind |-> "none", items |-> <<>>]

\* no call has returned yet. dueDate is the parsed due date of the call's payload,
\* keys are the keys of its updates; delOk is history: the call's cache delete
\* succeeded
NoDone ==
  [ op |-> "none", userId |-> Absent, taskId |-> NoSuchId, out |-> "none",
    name |-> "none", message |-> "", statusCode |-> 0, reason |-> "",
    existingTaskId |-> NoSuchId, dueDate |-> NaN, val |-> NoVal, delOk |-> FALSE,
    logged |-> {}, keys |-> {}, filters |-> NoFilters ]

(***************************************************************************)
(* Initial state and specifications of the limiter.                        *)
(***************************************************************************)
TaskInit ==
  /\ tasks = {}
  /\ nextId = 1
  /\ cache = [k \in CacheKeys |-> NoEntry]
  /\ proc = [p \in Slots |-> IdleProc]
  /\ done = NoDone
  /\ calls = 0

LimInit(c) ==
  /\ cfg = c
  /\ clock = 0
  /\ ticks = 0
  /\ window = [k \in AllKeys |-> {}]
  /\ expiry = [k \in AllKeys |-> NoExpiry]
  /\ req = [s \in Slots |-> IdleReq]
  /\ last = NoLast
  /\ allOk = TRUE
  /\ TaskInit

LimSteps(r) ==
  \/ Evict(r) \/ Count(r) \/ Reject(r) \/ Add(r) \/ Expire(r) \/ Send(r)

\* limit(LimitMax): requests of one client, interleaving freely
NextLimit == (\E r \in Slots : Start(r) \/ LimSteps(r)) \/ Tick
SpecLimit == LimInit(LimitCfg) /\ [][NextLimit]_vars

\* limit(LimitMax): requests of all clients, one after the other
NextSeq == (\E r \in Slots : StartAlone(r) \/ LimSteps(r)) \/ Tick
SpecSeq == LimInit(LimitCfg) /\ [][NextSeq]_vars

\* authLimiter(): requests of one client, one after the other
NextAuth == (\E r \in Slots : StartOne(r) \/ LimSteps(r) \/ ErrorSend(r)) \/ Tick
SpecAuth == LimInit(AuthCfg) /\ [][NextAuth]_vars

\* the step A of an attempt that fails: the store is ready, its calls succeed, and
\* the handler answers with a status of 400 or above
Failing(A) == A /\ last'.cause = "none" /\ last'.statusCode # 200

\* authLimiter(): failing attempts of one client, one after the other
NextBrute ==
  \/ \E r \in Slots :
       \/ Failing(StartOne(r))
       \/ Failing(Evict(r)) \/ Failing(Count(r)) \/ Failing(Reject(r))
       \/ Failing(Add(r)) \/ Failing(Expire(r)) \/ Failing(Send(r))
  \/ Tick
SpecBrute == LimInit(AuthCfg) /\ [][NextBrute]_vars

\* the step A of a request that finds the store ready and its calls succeeding
Ready(A) == A /\ last'.cause = "none"

\* authLimiter(): failing attempts of one address for two emails, one after the
\* other
NextPairs ==
  \/ \E r \in Slots :
       \/ Failing(StartPair(r))
       \/ Failing(Evict(r)) \/ Failing(Count(r)) \/ Failing(Reject(r))
       \/ Failing(Add(r)) \/ Failing(Expire(r)) \/ Failing(Send(r))
  \/ Tick
SpecPairs == LimInit(AuthCfg) /\ [][NextPairs]_vars

\* POST /api/tasks: app.use('/api', apiLimiter()) is the one limiter on the way to
\* taskController.createTask; it runs before the router's auth middleware sets
\* req.user, so the requests of a user are keyed by their ip. The requests are
\* the create requests of one user, one after the other.
NextCreateRoute ==
  \/ \E r \in Slots :
       \/ Ready(StartOne(r))
       \/ Ready(Evict(r)) \/ Ready(Count(r)) \/ Ready(Reject(r))
       \/ Ready(Add(r)) \/ Ready(Expire(r)) \/ Send(r)
  \/ Tick
SpecCreateRoute == LimInit(ApiCfg) /\ [][NextCreateRoute]_vars

\* time passes, also to one millisecond before the end of a window
Advance ==
  /\ ticks <= MaxTicks
  /\ \E d \in {1, cfg.windowMs - 1} :
       /\ clock' = clock + d
       /\ window' = [k \in AllKeys |->
            IF expiry[k] # NoExpiry /\ clock + d >= expiry[k] THEN {} ELSE window[k]]
       /\ expiry' = [k \in AllKeys |->
            IF expiry[k] # NoExpiry /\ clock + d >= expiry[k] THEN NoExpiry ELSE expiry[k]]
  /\ ticks' = ticks + 1
  /\ UNCHANGED <<cfg, req, last, allOk, taskVars>>

\* limit(LimitMax): requests of one client, one after the other, over two windows
NextRecover == (\E r \in Slots : StartOne(r) \/ LimSteps(r)) \/ Advance
SpecRecover == LimInit(LimitCfg) /\ [][NextRecover]_vars

(***************************************************************************)
(* Properties of the limiter.                                              *)
(***************************************************************************)
\* the entries of key k, other than m, that lie inside the window that ends at now
InWindow(k, m, now) == {x \in window[k] \ {m} : x[1] > now - cfg.windowMs}

\* the request in slot r went through every store call and was let through
AdmittedNormally(r) == req[r].pc = "handler" /\ last.out = "next" /\ last.cause = "none"

C1_Inv ==
  /\ \A k \in AllKeys : zcard(window[k]) <= cfg.max
  /\ \A r \in Slots :
       AdmittedNormally(r) => Cardinality(InWindow(req[r].key, req[r].member, req[r].now)) < cfg.max
  /\ \A r \in Slots : req[r].pc = "zrange" => req[r].requestCount >= cfg.max
  /\ last.error = "RateLimitError" =>
       last.out = "next" /\ last.statusCode = 429 /\ last.requestCount >= cfg.max

C1_Step ==
  \A r \in Slots :
    /\ (req[r].pc = "zcard" /\ req'[r] # req[r] /\ zcard(window[req[r].key]) >= cfg.max)
         => (req'[r].pc = "zrange" \/ last'.cause = "store")
    /\ (req[r].pc = "zrange" /\ req'[r] # req[r])
         => (last'.error = "RateLimitError" \/ last'.cause = "store")

\* C1: with requests evaluated one at a time, no key's window ever holds more than
\* max entries; a request is let through by the count only when fewer than max
\* entries of its window precede it, and a request that counts max or more is
\* handed to next with a RateLimitError of status 429 (unless a store call fails,
\* which is the fail-open case of C2).
C1_SequentialLimit == []C1_Inv /\ [][C1_Step]_vars

\* C1 witness: a request was rejected while its key's window holds max entries
C1_Witness ==
  /\ last.error = "RateLimitError"
  /\ last.statusCode = 429
  /\ \E k \in AllKeys : zcard(window[k]) = cfg.max

C2_Inv ==
  /\ last.cause # "none" => last.out = "next" /\ last.error = "none"
  /\ last.cause = "notready" => ~last.called

C2_Step ==
  \A r \in Slots :
    /\ (req[r].pc = "idle" /\ req'[r].pc = "handler")
         => (last'.cause = "notready" /\ window' = window /\ expiry' = expiry)
    /\ (req[r].pc \in Evaluating /\ last'.cause = "store" /\ req'[r] # req[r])
         => (req'[r].pc = "handler" /\ last'.error = "none" /\ window' = window)

\* C2: a request that finds the store not ready, or one of whose store calls
\* fails, is handed to next with no error whatever its key's window holds; the
\* request that finds the store not ready makes no store call and leaves the
\* store as it was.
C2_FailOpen == []C2_Inv /\ [][C2_Step]_vars

\* C2 witness: a store call failed and the request was let through although its
\* key's window is full
C2_Witness ==
  \E r \in Slots :
    /\ req[r].pc = "handler"
    /\ last.cause = "store" /\ last.error = "none"
    /\ zcard(window[req[r].key]) >= cfg.max

\* C3 (as the specification states it): under authLimiter, once res.send has run
\* for an admitted request with a status below 400 the entry the request added is
\* no longer in the window, and as long as every attempt was answered with a
\* status below 400 no request is rejected.
C3_SuccessNotCounted ==
  /\ (last.out \in {"sent", "threw"} /\ last.statusCode < 400) => ~last.counted
  /\ allOk => last.error # "RateLimitError"

\* C8: with at most MaxInFlight requests of one key in flight, interleaving their
\* store calls freely, the key's window never holds more than
\* max + MaxInFlight - 1 entries.
C8_SoftBound == \A k \in AllKeys : zcard(window[k]) <= cfg.max + MaxInFlight - 1

\* C8 witness: requests that all counted before any of them inserted took the
\* window past max, to max + MaxInFlight - 1 entries
C8_Witness ==
  \E k \in AllKeys :
    /\ zcard(window[k]) = cfg.max + MaxInFlight - 1
    /\ zcard(window[k]) > cfg.max

C11_Inv ==
  \A r \in Slots :
    req[r].pc = "zcard"
      => /\ \A m \in window[req[r].key] : m[1] > req[r].now - cfg.windowMs
         /\ req[r].removed >= 1 => zcard(window[req[r].key]) < cfg.max

C11_Step ==
  \A r \in Slots :
    /\ (req[r].pc = "zremrangebyscore" /\ req'[r].pc = "zcard")
         => /\ window'[req[r].key] =
                 {m \in window[req[r].key] : m[1] + cfg.windowMs > req[r].now}
            /\ req'[r].removed =
                 Cardinality({m \in window[req[r].key] : m[1] + cfg.windowMs <= req[r].now})
    /\ (req[r].pc = "zcard" /\ req'[r] # req[r] /\ zcard(window[req[r].key]) < cfg.max)
         => req'[r].pc \in {"zadd", "handler"}
    /\ (req[r].pc \in {"zadd", "expire"} /\ req'[r] # req[r])
         => req'[r].pc \in {"expire", "handler"}

\* C11: with requests evaluated one at a time, the eviction of a request removes
\* exactly the entries admitted windowMs or more before it, so when it counts no
\* such entry is left; a request evaluated at or after windowMs past the first of
\* max admitted requests therefore counts fewer than max entries, and a request
\* that counts fewer than max entries is let through.
C11_WindowRecovery == []C11_Inv /\ [][C11_Step]_vars

\* C11 witness: max requests were admitted, the first of them exactly windowMs
\* before this one; its eviction removed that entry alone and it was admitted
C11_Witness ==
  \E r \in Slots :
    /\ AdmittedNormally(r)
    /\ req[r].removed = 1
    /\ req[r].requestCount = cfg.max - 1
    /\ \E m \in window[req[r].key] : m[1] < req[r].now /\ m[1] + cfg.windowMs > req[r].now

C12_Inv ==
  /\ cfg.max = 5 /\ cfg.windowMs = 15 * 60 * 1000
  /\ \A k \in AllKeys : Cardinality(window[k]) <= 5
  /\ \A k \in AllKeys : \A m \in window[k] : m[1] <= clock
  /\ last.error = "RateLimitError" => last.requestCount >= 5

C12_Step ==
  /\ \A r \in Slots :
       /\ (req[r].pc = "handler" /\ req'[r].pc = "idle")
            => /\ last'.out = "sent" /\ last'.statusCode >= 400
               /\ window' = window
       /\ (req[r].pc = "zcard" /\ req'[r] # req[r]
             /\ Cardinality(window[req[r].key]) >= 5)
            => req'[r].pc = "zrange"
       /\ (req[r].pc = "zrange" /\ req'[r] # req[r])
            => /\ req'[r].pc = "idle"
               /\ last'.out = "next" /\ last'.error = "RateLimitError"
               /\ last'.statusCode = 429
               /\ window' = window
  /\ \A k \in AllKeys : \A m \in window[k] :
       m[1] + 15 * 60 * 1000 > clock' => m \in window'[k]

\* C12: under authLimiter with the store ready and its calls succeeding, the
\* answer of an attempt with a status of 400 or above removes nothing from the
\* windows, so the entry of the attempt stays in the window of its (ip, email)
\* key; an entry stays there until 15 minutes have passed since its attempt; and a request that counts 5 entries is handed to
\* next with a RateLimitError of status 429 and never reaches the handler. So
\* after 5 failed attempts of one pair within 15 minutes the next one is rejected.
C12_BruteForce == []C12_Inv /\ [][C12_Step]_vars

\* C12 witness: five failed attempts of one pair, the clock having advanced
\* meanwhile, fill the pair's window and the sixth is rejected
C12_Witness ==
  /\ last.error = "RateLimitError" /\ last.statusCode = 429
  /\ last.requestCount = 5
  /\ clock > 0
  /\ \E k \in AllKeys :
       /\ Cardinality(window[k]) = 5
       /\ \E m \in window[k] : m[1] = 0
       /\ \E m \in window[k] : m[1] = clock

\* C13 (as the specification states it): on the way of POST /api/tasks, with the
\* store ready, a create request of a user reaches the handler, where createTask
\* runs, only when fewer than 10 create requests of that user were admitted in
\* the minute before it.
C13_CreationLimited ==
  \A r \in Slots :
    req[r].pc = "handler"
      => Cardinality({x \in window[req[r].key] \ {req[r].member} :
                        x[1] + CreateCfg.windowMs > req[r].now}) < CreateCfg.max

\* the lowest score of a non-empty set of entries
OldestTimestamp(set) == CHOOSE t \in {m[1] : m \in set} : \A m \in set : t <= m[1]

C20_Inv ==
  last.error = "RateLimitError"
    => /\ 1 <= last.retryAfter
       /\ last.retryAfter * 1000 < cfg.windowMs + 1000
       /\ last.header = last.retryAfter

C20_Step ==
  \A r \in Slots :
    (req[r].pc = "zrange" /\ req'[r] # req[r] /\ last'.error = "RateLimitError")
      => LET set == window[req[r].key]
             ms == IF set = {} THEN cfg.windowMs
                   ELSE OldestTimestamp(set) + cfg.windowMs - req[r].now
         IN /\ last'.retryAfter * 1000 >= ms
            /\ last'.retryAfter * 1000 < ms + 1000

\* C20 (as the specification states it): whatever the interleaving of the
\* requests of a key, a rejected request's retry-after is an integer of at least 1
\* and at most ceil(windowMs / 1000); it is the ceiling of (oldestTimestamp +
\* windowMs - now) / 1000 for the oldest entry its lookup finds and the ceiling of
\* windowMs / 1000 when the lookup finds none; the Retry-After header carries the
\* value the RateLimitError carries.
C20_RetryAfter == []C20_Inv /\ [][C20_Step]_vars

\* every entry the lookup of the request in slot r can find was added at or before
\* the request's now and less than windowMs before it
OldestInWindow(r) ==
  \A m \in window[req[r].key] : m[1] <= req[r].now /\ m[1] + cfg.windowMs > req[r].now

C20_AmendedStep ==
  \A r \in Slots :
    (req[r].pc = "zrange" /\ req'[r] # req[r] /\ last'.error = "RateLimitError")
      => /\ OldestInWindow(r)
              => (1 <= last'.retryAfter /\ last'.retryAfter * 1000 < cfg.windowMs + 1000)
         /\ last'.header = last'.retryAfter

\* C20 (amended): whatever the interleaving of the requests of a key, a rejected
\* request's retry-after is the ceiling of (oldestTimestamp + windowMs - now) /
\* 1000 for the oldest entry its lookup finds and the ceiling of windowMs / 1000
\* when the lookup finds none, and the Retry-After header carries the value the
\* RateLimitError carries. The value is at least 1 and at most ceil(windowMs /
\* 1000) when the entries of the key were all added at or before the request's
\* now and less than windowMs before it, as they are when requests are evaluated
\* one at a time; an entry that an interleaved request added with a later or a
\* much earlier now takes the value above ceil(windowMs / 1000) or below 1.
C20_RetryAfterOfOldest == [][C20_Step]_vars /\ [][C20_AmendedStep]_vars

\* C20 witness: while another request of the key is between its store calls, a
\* request is rejected with a retry-after of the whole window
C20_Witness ==
  /\ last.error = "RateLimitError"
  /\ last.retryAfter * 1000 = cfg.windowMs
  /\ last.header = last.retryAfter
  /\ \E s \in Slots : req[s].pc \in Evaluating

C21_Step ==
  \A r \in Slots :
    /\ (req[r].pc = "zremrangebyscore" /\ req'[r].pc = "zcard")
         => window'[req[r].key] =
              {m \in window[req[r].key] : m[1] >= req[r].now - cfg.windowMs}
    /\ (req[r].pc = "zcard" /\ req'[r].pc \in {"zrange", "zadd"})
         => req'[r].requestCount = Cardinality(window[req[r].key])

\* C21: the eviction of a request removes exactly the entries of its key whose
\* timestamp is strictly less than now - windowMs, so that an entry whose
\* timestamp equals now - windowMs stays in the set, and the count the request
\* reads next is the number of entries of the set.
C21_StrictEviction == [][C21_Step]_vars

C22_Inv ==
  \A r \in Slots :
    req[r].pc = "zrange"
      => /\ req[r].member = NoMember
         /\ \A m \in window[req[r].key] : m[1] > req[r].now - cfg.windowMs
         /\ window[req[r].key] = {}
              \/ Cardinality(window[req[r].key]) = req[r].requestCount

C22_Step ==
  \A r \in Slots :
    /\ (req[r].pc = "zcard" /\ req'[r].pc = "zrange")
         => window' = window /\ expiry' = expiry
    /\ (req[r].pc = "zrange" /\ req'[r] # req[r])
         => /\ window' = window /\ expiry' = expiry
            /\ last'.error = "RateLimitError"
                 => /\ req'[r].pc = "idle"
                    /\ window'[req[r].key] = {}
                         \/ Cardinality(window'[req[r].key]) = last'.requestCount

\* C22: with requests evaluated one at a time, a request that is rejected adds no
\* entry to the window of its key and does not touch the expiry of the key: from
\* its count to its rejection the store is left as it is, so that after the
\* rejection the set holds the entries that survived the request's eviction (as
\* many as it counted, each less than windowMs old), or none when the key
\* expired in the meantime.
C22_RejectionAddsNothing == []C22_Inv /\ [][C22_Step]_vars

\* C22 witness: a request was rejected some time after the last admission; the
\* set of its key holds the max entries it counted, and the key still expires
\* when the last admission set it to, less than a window from now
C22_Witness ==
  /\ last.error = "RateLimitError"
  /\ \A r \in Slots : req[r].pc = "idle"
  /\ \E k \in AllKeys :
       /\ Cardinality(window[k]) = cfg.max
       /\ last.requestCount = cfg.max
       /\ expiry[k] # NoExpiry
       /\ expiry[k] < clock + Ceil(cfg.windowMs, 1000) * 1000

\* the key of an authentication attempt q: its address and its email
AuthKey(q) == <<"ratelimit", "auth", q.ip, q.email>>

C25_Inv ==
  /\ cfg.keyGenerator = "auth"
  /\ \A r \in Slots :
       req[r].pc \in {"zremrangebyscore", "zcard", "zrange", "zadd", "expire"}
         => req[r].q.email \in {"a@x", "b@x"} /\ req[r].key = AuthKey(req[r].q)

C25_Step ==
  \A r \in Slots :
    /\ (req[r].pc # "idle" /\ req'[r] # req[r])
         => \A k \in DOMAIN window :
              k # AuthKey(req[r].q) => window'[k] = window[k] /\ expiry'[k] = expiry[k]
    /\ (req[r].pc = "idle" /\ req'[r] # req[r])
         => window' = window /\ expiry' = expiry
    /\ (req[r].pc = "zcard" /\ req'[r] # req[r])
         => /\ req'[r].requestCount = Cardinality(window[AuthKey(req[r].q)])
            /\ req'[r].pc = "zrange" <=> Cardinality(window[AuthKey(req[r].q)]) >= cfg.max

\* C25: the key of an authentication attempt is made of its address and its
\* email, and each step of the evaluation of a request writes the window and the
\* expiry of that key alone; the count it reads, and with it the decision to
\* admit or reject, is the number of entries of that key. So the attempts of one
\* address for email a@x leave the window of the attempts of the same address for
\* b@x as it is, and never change their outcome.
C25_KeyIndependence == []C25_Inv /\ [][C25_Step]_vars

\* C25 witness: the address has used up its five attempts for one email and its
\* first attempt for the other email is admitted with a count of zero
C25_Witness ==
  \E r \in Slots :
    /\ AdmittedNormally(r)
    /\ req[r].q.email = "b@x"
    /\ req[r].requestCount = 0
    /\ Cardinality(window[AuthKey([req[r].q EXCEPT !.email = "a@x"])]) = 5

C28_Inv ==
  \A k \in AllKeys :
    expiry[k] # NoExpiry
      => /\ window[k] # {}
         /\ clock < expiry[k]
         /\ expiry[k] <= clock + Ceil(cfg.windowMs, 1000) * 1000

C28_Step ==
  /\ \A r \in Slots :
       (req[r].pc = "expire" /\ req'[r].pc = "handler" /\ last'.cause = "none")
         => /\ window[req[r].key] # {}
                 => expiry'[req[r].key] = clock + Ceil(cfg.windowMs, 1000) * 1000
            /\ window[req[r].key] = {} => expiry'[req[r].key] = NoExpiry
  /\ \A k \in AllKeys :
       /\ (expiry[k] # NoExpiry /\ clock' >= expiry[k])
            => window'[k] = {} /\ expiry'[k] = NoExpiry
       /\ (expiry'[k] # expiry[k] /\ expiry'[k] # NoExpiry)
            => \E r \in Slots :
                 /\ req[r].pc = "expire" /\ req[r].key = k
                 /\ req'[r].pc = "handler" /\ last'.cause = "none"

C29_Inv ==
  \A r \in Slots :
    AdmittedNormally(r)
      => /\ last.limit = cfg.max
         /\ last.requestCount = req[r].requestCount
         /\ last.remaining = cfg.max - req[r].requestCount - 1
         /\ 0 <= last.remaining /\ last.remaining < cfg.max
         /\ (req[r].member \in window[req[r].key] /\ clock = req[r].now)
              => last.remaining = cfg.max - Cardinality(window[req[r].key])

C29_Step ==
  \A r \in Slots :
    /\ (req[r].pc = "zcard" /\ req'[r].pc \in {"zrange", "zadd"})
         => /\ req'[r].requestCount = Cardinality(window[req[r].key])
            /\ req[r].member = NoMember
    /\ (req[r].pc = "expire" /\ req'[r].pc = "handler" /\ last'.cause = "none")
         => /\ last'.limit = cfg.max
            /\ last'.remaining =
                 (IF cfg.max - req[r].requestCount - 1 > 0
                    THEN cfg.max - req[r].requestCount - 1 ELSE 0)
    /\ (req[r].pc = "zrange" /\ last'.error = "RateLimitError" /\ req'[r] # req[r])
         => last'.limit = cfg.max /\ last'.remaining = 0

\* C29: with requests evaluated one at a time, a request that is admitted with
\* every store call succeeding carries X-RateLimit-Limit = max and
\* X-RateLimit-Remaining = max(0, max - requestCount - 1), requestCount being the
\* number of entries of the key read before the request's own entry is added. The
\* value lies in 0..max-1 and, while no time passes, equals max minus the number
\* of entries of the key with the request's own, so that requests made in a row on
\* a fresh key carry max-1, ..., 0. A rejected request carries the limit max and
\* the remaining count 0.
C29_RemainingHeader == []C29_Inv /\ [][C29_Step]_vars

\* C29 witness: the last of max requests made in a row on a fresh key is admitted
\* with a remaining count of 0 and a limit of max
C29_Witness ==
  \E r \in Slots :
    /\ AdmittedNormally(r)
    /\ clock = 0
    /\ last.remaining = 0 /\ last.limit = cfg.max
    /\ req[r].requestCount = cfg.max - 1
    /\ Cardinality(window[req[r].key]) = cfg.max

\* C30: whenever the handler of an admitted request has called res.send, with
\* whatever status code and under whatever setting of skipSuccessfulRequests and
\* skipFailedRequests, the original send was called exactly once, so the response
\* was delivered.
C30_SendOnce == last.out \in {"sent", "threw"} => last.sends = 1

C34_Step ==
  \A r \in Slots :
    LET inside == {"zremrangebyscore", "zcard", "zrange", "zadd", "expire"}
    IN /\ (req[r].pc \in inside \cup {"idle"} /\ req'[r].pc \in inside)
            => last' = last
       /\ (req[r].pc \in inside \cup {"idle"} /\ req'[r].pc = "handler")
            => /\ last'.out = "next" /\ last'.error = "none" /\ last'.statusCode = 0
               /\ last'.cause = "notready" <=> req[r].pc = "idle"
       /\ (req[r].pc \in inside /\ req'[r].pc = "idle")
            => /\ req[r].pc = "zrange"
               /\ req[r].requestCount >= cfg.max
               /\ last'.out = "next" /\ last'.error = "RateLimitError"
       /\ (req[r].pc \in {"handler", "threw"} /\ req'[r] # req[r])
            => last'.out \in {"sent", "threw"} /\ req'[r].pc \in {"idle", "threw"}
       /\ (req[r].pc = "zcard" /\ req'[r].pc = "zadd")
            => req'[r].requestCount < cfg.max

\* C34: an invocation of the middleware calls next in the one step in which it
\* ends, and in no step before or after it. It calls next with a RateLimitError
\* when the count it read is at or above max and its lookup of the oldest entry
\* succeeds, and with no argument when the store is not ready, when a store call
\* fails (that lookup included) and when the request is admitted.
C34_NextOnce == [][C34_Step]_vars

\* C34 witness: the count a request read had reached max, its lookup of the
\* oldest entry failed, and next was called with no argument
C34_Witness ==
  \E r \in Slots :
    /\ req[r].pc = "handler"
    /\ last.out = "next" /\ last.error = "none" /\ last.cause = "store"
    /\ req[r].requestCount >= cfg.max
    /\ Cardinality(window[req[r].key]) = cfg.max

(***************************************************************************)
(* The repository (Task model) and the cache (RedisService).               *)
(***************************************************************************)
\* x || null, x || 'pending'
OrElse(x, d) == IF x \in {Absent, ""} THEN d ELSE x

\* a query condition { path: q } on a document's path: null matches a path the
\* document does not hold, any other value matches the equal value
QueryEq(field, q) == IF q = Null THEN field = Absent ELSE field = q

\* Model.findOne: the first matching document in the collection's order
findOne(matching) ==
  IF matching = {} THEN <<>>
  ELSE <<CHOOSE t \in matching : \A u \in matching : t._id <= u._id>>

\* documents, latest first: sort({ createdAt: -1 })
RECURSIVE SortDesc(_)
SortDesc(set) ==
  IF set = {} THEN <<>>
  ELSE LET t == CHOOSE x \in set : \A y \in set : x._id >= y._id
       IN <<t>> \o SortDesc(set \ {t})

\* Task.find({ owner: userId }).sort({ createdAt: -1 })
find(userId) == SortDesc({t \in tasks : t.owner = userId})

\* lines 40-46: the exact-duplicate query
ExactDuplicate(taskData, userId) ==
  {t \in tasks :
     /\ t.owner = userId
     /\ t.title = taskData.title
     /\ QueryEq(t.description, OrElse(taskData.description, Null))
     /\ t.dueDate = DateOf(taskData.dueDate)
     /\ t.status = OrElse(taskData.status, "pending")}

\* a near-duplicate query whose window excludes its two ends
SimilarTaskStrict(taskData, userId) ==
  {t \in tasks :
     /\ t.owner = userId
     /\ t.title = taskData.title
     /\ t.dueDate > DateOf(taskData.dueDate) - DayMs
     /\ t.dueDate < DateOf(taskData.dueDate) + DayMs
     /\ t.status = "pending"}

\* lines 58-66: the query for a pending task of the same title within 24 hours
SimilarTask(taskData, userId) ==
  {t \in tasks :
     /\ t.owner = userId
     /\ t.title = taskData.title
     /\ t.dueDate >= DateOf(taskData.dueDate) - DayMs
     /\ t.dueDate <= DateOf(taskData.dueDate) + DayMs
     /\ t.status = "pending"}

\* lines 77-83: new Task({...}); the schema fills in neither description nor owner
NewTask(id, taskData, userId) ==
  [ _id |-> id, owner |-> userId, title |-> taskData.title,
    description |-> taskData.description, dueDate |-> DateOf(taskData.dueDate),
    status |-> OrElse(taskData.status, "pending") ]

\* the schema's validation of a document at save: title and dueDate are required
Validates(t) ==
  t.title \notin {Absent, ""} /\ t.status \in StatusEnum /\ t.dueDate # NoDate

\* JSON.stringify of a list of documents: ids and dates become strings
JSONstringify(docs) == <<"json", docs>>
\* JSON.parse of a stored string: plain objects, no documents
JSONparse(str) == [kind |-> "plain", items |-> str[2]]
\* what a call returns when it returns documents
Docs(docs) == [kind |-> "docs", items |-> docs]

\* a get that finds no key
CacheGetNever(key) == NoVal

\* RedisService.get: the parsed value, or null when the key is absent
CacheGet(key) == IF cache[key].present THEN JSONparse(cache[key].val) ELSE NoVal

\* a set whose entry outlives expireInSeconds
CacheSetForever(value, expireInSeconds) ==
  [present |-> TRUE, val |-> JSONstringify(value),
   exp |-> clock + (MaxTicks + 1) * expireInSeconds * 1000, missed |-> FALSE]

\* RedisService.set, lines 25-33: the stored string and its expiry (EX)
CacheSet(value, expireInSeconds) ==
  [present |-> TRUE, val |-> JSONstringify(value),
   exp |-> clock + expireInSeconds * 1000, missed |-> FALSE]

(***************************************************************************)
(* The calls of TaskService, one step per await.                           *)
(***************************************************************************)
Idle(p) == proc[p].pc = "idle"
AllIdle == \A p \in Slots : Idle(p)

\* the call c of slot p returns val; errs are the cache errors logged at this step
ReturnFrom(p, c, val, delOk, errs) ==
  /\ proc' = [proc EXCEPT ![p] = IdleProc]
  /\ done' = [NoDone EXCEPT !.op = c.op, !.userId = c.userId,
                            !.taskId = c.taskId, !.out = "ok",
                            !.dueDate = DateOf(c.taskData.dueDate),
                            !.val = val, !.delOk = delOk,
                            !.logged = c.logged \cup errs,
                            !.keys = c.updates.keys, !.filters = c.filters]

Return(p, val, delOk, errs) == ReturnFrom(p, proc[p], val, delOk, errs)

\* the call op of slot p throws an error of class name; c is the call's record
ThrowFrom(p, c, name, statusCode, message, reason, existing) ==
  /\ proc' = [proc EXCEPT ![p] = IdleProc]
  /\ done' = [NoDone EXCEPT !.op = c.op, !.userId = c.userId,
                            !.taskId = c.taskId, !.out = "error",
                            !.dueDate = DateOf(c.taskData.dueDate),
                            !.name = name, !.statusCode = statusCode,
                            !.message = message, !.reason = reason,
                            !.existingTaskId = existing, !.logged = c.logged,
                            !.keys = c.updates.keys, !.filters = c.filters]

Throw(p, name, statusCode, message) ==
  ThrowFrom(p, proc[p], name, statusCode, message, "", NoSuchId)

\* a call enters the lowest idle slot
Enter(p, c) ==
  /\ Idle(p)
  /\ \A s \in Slots : s < p => ~Idle(s)
  /\ proc' = [proc EXCEPT ![p] = c]
  /\ UNCHANGED done

\* what the task service never touches
CallFrame == UNCHANGED <<limVars, timeVars>>
TaskFrame == UNCHANGED <<limVars, timeVars, calls>>

\* getTasks(userId), lines 11-14
CallGetTasks(p, userId) ==
  /\ Enter(p, [IdleProc EXCEPT !.op = "getTasks", !.pc = "get", !.userId = userId])
  /\ UNCHANGED <<tasks, nextId, cache>>
  /\ CallFrame

\* lines 14-18: redisService.get swallows its error and returns null; a cached
\* list, empty or not, is returned as it is
GetCached(p) ==
  /\ proc[p].pc = "get"
  /\ \E ok \in BOOLEAN :
       LET cachedTasks ==
             IF ok THEN CacheGet(generateTasksCacheKey(proc[p].userId)) ELSE NoVal
       IN IF cachedTasks.kind # "none"
            THEN Return(p, cachedTasks, FALSE, {})
            ELSE /\ proc' = [proc EXCEPT ![p].pc = "find",
                                          ![p].logged = IF ok THEN {} ELSE {"GET"}]
                 /\ UNCHANGED done
  /\ UNCHANGED <<tasks, nextId, cache>>
  /\ TaskFrame

\* lines 20 and 23-25
GetFind(p) ==
  /\ proc[p].pc = "find"
  /\ \E ok \in BOOLEAN :
       IF ok
         THEN /\ proc' = [proc EXCEPT ![p].docs = find(proc[p].userId), ![p].pc = "set"]
              /\ UNCHANGED done
         ELSE Throw(p, "DatabaseError", 500, "Error fetching tasks")
  /\ UNCHANGED <<tasks, nextId, cache>>
  /\ TaskFrame

\* a getTasks to which the error of the cache set is fatal
GetSetFatal(p) ==
  /\ proc[p].pc = "set"
  /\ \E ok \in BOOLEAN :
       IF ok
         THEN /\ cache' = [cache EXCEPT ![generateTasksCacheKey(proc[p].userId)] =
                             CacheSet(proc[p].docs, CacheTtlSeconds)]
              /\ Return(p, Docs(proc[p].docs), FALSE, {})
         ELSE /\ cache' = cache
              /\ Throw(p, "DatabaseError", 500, "Error fetching tasks")
  /\ UNCHANGED <<tasks, nextId>>
  /\ TaskFrame

\* lines 21-22: redisService.set swallows its error
GetSet(p) ==
  /\ proc[p].pc = "set"
  /\ \E ok \in BOOLEAN :
       /\ cache' = IF ok
                     THEN [cache EXCEPT ![generateTasksCacheKey(proc[p].userId)] =
                             CacheSet(proc[p].docs, CacheTtlSeconds)]
                     ELSE cache
       /\ Return(p, Docs(proc[p].docs), FALSE, IF ok THEN {} ELSE {"SET"})
  /\ UNCHANGED <<tasks, nextId>>
  /\ TaskFrame

\* the createTask calls that have not saved yet
Creating == {s \in Slots : proc[s].op = "createTask" /\ proc[s].pc # "del"}

\* createTask(taskData, userId), lines 28-37: the due date is parsed before the
\* first await
CallCreateTask(p, taskData, userId) ==
  /\ nextId + Cardinality(Creating) <= MaxTasks
  /\ LET c == [IdleProc EXCEPT !.op = "createTask", !.pc = "exact",
                               !.userId = userId, !.taskData = taskData]
     IN IF isNaN(DateOf(taskData.dueDate))
          THEN /\ Idle(p)
               /\ \A s \in Slots : s < p => ~Idle(s)
               /\ ThrowFrom(p, c, "ValidationError", 400, "Invalid due date format",
                            "", NoSuchId)
          ELSE Enter(p, c)
  /\ UNCHANGED <<tasks, nextId, cache>>
  /\ CallFrame

\* an exact-duplicate check that drops the owner's cache entry when it refuses
CreateExactInvalidating(p) ==
  /\ proc[p].pc = "exact"
  /\ \E ok \in BOOLEAN :
       IF ok
         THEN LET exactDuplicate ==
                    findOne(ExactDuplicate(proc[p].taskData, proc[p].userId))
              IN IF exactDuplicate # <<>>
                   THEN /\ ThrowFrom(p, proc[p], "AppError", 409, "Duplicate task found",
                                     "Exact task match", exactDuplicate[1]._id)
                        /\ cache' = [cache EXCEPT
                                       ![generateTasksCacheKey(proc[p].userId)] = NoEntry]
                   ELSE /\ proc' = [proc EXCEPT ![p].pc = "similar"]
                        /\ UNCHANGED <<done, cache>>
         ELSE Throw(p, "DatabaseError", 500, "Error creating task") /\ UNCHANGED cache
  /\ UNCHANGED <<tasks, nextId>>
  /\ TaskFrame

\* lines 39-55 and 89-103
CreateExact(p) ==
  /\ proc[p].pc = "exact"
  /\ \E ok \in BOOLEAN :
       IF ok
         THEN LET exactDuplicate ==
                    findOne(ExactDuplicate(proc[p].taskData, proc[p].userId))
              IN IF exactDuplicate # <<>>
                   THEN ThrowFrom(p, proc[p], "AppError", 409, "Duplicate task found",
                                  "Exact task match", exactDuplicate[1]._id)
                   ELSE proc' = [proc EXCEPT ![p].pc = "similar"] /\ UNCHANGED done
         ELSE Throw(p, "DatabaseError", 500, "Error creating task")
  /\ UNCHANGED <<tasks, nextId, cache>>
  /\ TaskFrame

\* lines 57-75 and 89-103; exactDuplicate is null here, so line 68 tests similarTask
CreateSimilar(p) ==
  /\ proc[p].pc = "similar"
  /\ \E ok \in BOOLEAN :
       IF ok
         THEN LET similarTask == findOne(SimilarTask(proc[p].taskData, proc[p].userId))
              IN IF similarTask # <<>>
                   THEN ThrowFrom(p, proc[p], "AppError", 409, "Similar task exists",
                                  "Same title and timeframe", similarTask[1]._id)
                   ELSE proc' = [proc EXCEPT ![p].pc = "save"] /\ UNCHANGED done
         ELSE Throw(p, "DatabaseError", 500, "Error creating task")
  /\ UNCHANGED <<tasks, nextId, cache>>
  /\ TaskFrame

\* lines 77-85 and 89-103
CreateSave(p) ==
  /\ proc[p].pc = "save"
  /\ LET task == NewTask(nextId, proc[p].taskData, proc[p].userId)
     IN IF ~Validates(task)
          THEN /\ Throw(p, "ValidationError", 400, "Invalid input")
               /\ UNCHANGED <<tasks, nextId>>
          ELSE \E ok \in BOOLEAN :
                 IF ok
                   THEN /\ tasks' = tasks \cup {task}
                        /\ nextId' = nextId + 1
                        /\ proc' = [proc EXCEPT ![p].docs = <<task>>, ![p].pc = "del"]
                        /\ UNCHANGED done
                   ELSE /\ Throw(p, "DatabaseError", 500, "Error creating task")
                        /\ UNCHANGED <<tasks, nextId>>
  /\ UNCHANGED cache
  /\ TaskFrame

\* a del that leaves the key in place
CacheDelNothing(key) == cache

\* RedisService.del: the key is gone
CacheDel(key) == [cache EXCEPT ![key] = NoEntry]

\* invalidateUserCache, lines 225-227, then the return of the mutation:
\* redisService.del swallows its error
Invalidate(p) ==
  /\ proc[p].pc = "del"
  /\ \E ok \in BOOLEAN :
       LET key == generateTasksCacheKey(proc[p].userId)
       IN /\ cache' = IF ok THEN CacheDel(key)
                      ELSE [cache EXCEPT ![key].missed = cache[key].present]
          /\ Return(p, Docs(proc[p].docs), ok, IF ok THEN {} ELSE {"DEL"})
  /\ UNCHANGED <<tasks, nextId>>
  /\ TaskFrame

\* an allow-list that lets the owner field through
allowedUpdatesOpen == {"title", "description", "status", "dueDate", "owner"}

\* line 109
allowedUpdates == {"title", "description", "status", "dueDate"}

\* an assignment that writes the due date of the updates whether they name it or not
AssignEvery(task, updates) ==
  [task EXCEPT
     !.status = IF "status" \in updates.keys THEN updates.status ELSE @,
     !.dueDate = IF TruthyDate(updates.dueDate)
                   THEN DateOf(updates.dueDate) ELSE NoDate]

\* Object.assign(task, updates), the due date being the parsed one (line 146);
\* an empty dueDate is not parsed (line 137) and the schema casts it to null
Assign(task, updates) ==
  [task EXCEPT
     !.status = IF "status" \in updates.keys THEN updates.status ELSE @,
     !.dueDate = IF "dueDate" \in updates.keys
                   THEN IF TruthyDate(updates.dueDate)
                          THEN DateOf(updates.dueDate) ELSE NoDate
                   ELSE @]

\* updateTask(taskId, updates, userId), lines 107-118: the allow-list is tested
\* before the first await
CallUpdateTask(p, taskId, updates, userId) ==
  /\ LET c == [IdleProc EXCEPT !.op = "updateTask", !.pc = "findOne",
                               !.userId = userId, !.taskId = taskId,
                               !.updates = updates]
         isValidOperation == \A update \in updates.keys : update \in allowedUpdates
     IN IF ~isValidOperation
          THEN /\ Idle(p)
               /\ \A s \in Slots : s < p => ~Idle(s)
               /\ ThrowFrom(p, c, "ValidationError", 400, "Invalid updates", "", NoSuchId)
          ELSE Enter(p, c)
  /\ UNCHANGED <<tasks, nextId, cache>>
  /\ CallFrame

\* a lookup by id alone
AnyTask(taskId, userId) == {t \in tasks : t._id = taskId}

\* the query { _id: taskId, owner: userId }
OwnedTask(taskId, userId) == {t \in tasks : t._id = taskId /\ t.owner = userId}

\* lines 120-149: the lookup scoped by owner, the due date, Object.assign
UpdateFindOne(p) ==
  /\ proc[p].pc = "findOne"
  /\ IF proc[p].taskId = BadId
       THEN Throw(p, "ValidationError", 400, "Invalid task ID format")
       ELSE \E ok \in BOOLEAN :
              IF ~ok
                THEN Throw(p, "DatabaseError", 500, "Error updating task")
                ELSE LET task == findOne(OwnedTask(proc[p].taskId, proc[p].userId))
                         updates == proc[p].updates
                     IN IF task = <<>>
                          THEN Throw(p, "NotFoundError", 404, "Task not found")
                          ELSE IF "dueDate" \in updates.keys
                                    /\ TruthyDate(updates.dueDate)
                                    /\ isNaN(DateOf(updates.dueDate))
                            THEN Throw(p, "ValidationError", 400, "Invalid due date format")
                            ELSE /\ proc' = [proc EXCEPT
                                      ![p].docs = <<Assign(task[1], updates)>>,
                                      ![p].pc = "updsave"]
                                 /\ UNCHANGED done
  /\ UNCHANGED <<tasks, nextId, cache>>
  /\ TaskFrame

\* a save that refuses an update whose result equals another task of the owner
UpdateSaveChecked(p) ==
  /\ proc[p].pc = "updsave"
  /\ LET task == proc[p].docs[1]
         stored == {t \in tasks : t._id = task._id}
         same == {t \in tasks :
                    /\ t._id # task._id /\ t.owner = task.owner
                    /\ t.title = task.title /\ t.description = task.description
                    /\ t.dueDate = task.dueDate /\ t.status = task.status}
     IN IF ~Validates(task)
          THEN Throw(p, "ValidationError", 400, "Invalid input") /\ UNCHANGED tasks
          ELSE IF same # {}
            THEN Throw(p, "AppError", 409, "Duplicate task found") /\ UNCHANGED tasks
            ELSE \E ok \in BOOLEAN :
                   IF ~ok
                     THEN Throw(p, "Error", 0, "save failed") /\ UNCHANGED tasks
                     ELSE IF stored = {}
                       THEN /\ Throw(p, "DocumentNotFoundError", 0, "No document found")
                            /\ UNCHANGED tasks
                       ELSE /\ tasks' = (tasks \ stored)
                                          \cup {Assign(t, proc[p].updates) : t \in stored}
                            /\ proc' = [proc EXCEPT ![p].pc = "del"]
                            /\ UNCHANGED done
  /\ UNCHANGED <<nextId, cache>>
  /\ TaskFrame

\* lines 150 and 153-168: save writes the modified paths to the stored document;
\* an error of save that is no validation error is thrown on as it is
UpdateSave(p) ==
  /\ proc[p].pc = "updsave"
  /\ LET task == proc[p].docs[1]
         stored == {t \in tasks : t._id = task._id}
     IN IF ~Validates(task)
          THEN Throw(p, "ValidationError", 400, "Invalid input") /\ UNCHANGED tasks
          ELSE \E ok \in BOOLEAN :
                 IF ~ok
                   THEN Throw(p, "Error", 0, "save failed") /\ UNCHANGED tasks
                   ELSE IF stored = {}
                     THEN /\ Throw(p, "DocumentNotFoundError", 0, "No document found")
                          /\ UNCHANGED tasks
                     ELSE /\ tasks' = (tasks \ stored)
                                        \cup {Assign(t, proc[p].updates) : t \in stored}
                          /\ proc' = [proc EXCEPT ![p].pc = "del"]
                          /\ UNCHANGED done
  /\ UNCHANGED <<nextId, cache>>
  /\ TaskFrame

\* deleteTask(taskId, userId), lines 171-172
CallDeleteTask(p, taskId, userId) ==
  /\ Enter(p, [IdleProc EXCEPT !.op = "deleteTask", !.pc = "findOneAndDelete",
                               !.userId = userId, !.taskId = taskId])
  /\ UNCHANGED <<tasks, nextId, cache>>
  /\ CallFrame

\* lines 173-176 and 179-189
DeleteFind(p) ==
  /\ proc[p].pc = "findOneAndDelete"
  /\ IF proc[p].taskId = BadId
       THEN Throw(p, "ValidationError", 400, "Invalid task ID format") /\ UNCHANGED tasks
       ELSE \E ok \in BOOLEAN :
              IF ~ok
                THEN Throw(p, "DatabaseError", 500, "Error deleting task")
                     /\ UNCHANGED tasks
                ELSE LET task == findOne(OwnedTask(proc[p].taskId, proc[p].userId))
                     IN IF task = <<>>
                          THEN Throw(p, "NotFoundError", 404, "Task not found")
                               /\ UNCHANGED tasks
                          ELSE /\ tasks' = tasks \ {task[1]}
                               /\ proc' = [proc EXCEPT ![p].docs = task, ![p].pc = "del"]
                               /\ UNCHANGED done
  /\ UNCHANGED <<nextId, cache>>
  /\ TaskFrame

\* a match whose due-date condition excludes the date itself
MatchBefore(filters, userId) ==
  {t \in tasks :
     /\ t.owner = userId
     /\ TruthyStatus(filters.status) => t.status = filters.status
     /\ TruthyDate(filters.dueDate) => t.dueDate < DateOf(filters.dueDate)}

\* lines 194-213: match = { owner, status, dueDate: { $lte } }
Match(filters, userId) ==
  {t \in tasks :
     /\ t.owner = userId
     /\ TruthyStatus(filters.status) => t.status = filters.status
     /\ TruthyDate(filters.dueDate) => t.dueDate <= DateOf(filters.dueDate)}

\* getFilteredTasks(filters, userId), lines 192-213: a status outside the enum
\* returns [] at once, before the due date is looked at; a due date that does not
\* parse throws before the first await
CallGetFilteredTasks(p, filters, userId) ==
  /\ LET c == [IdleProc EXCEPT !.op = "getFilteredTasks", !.pc = "filter",
                               !.userId = userId, !.filters = filters]
     IN IF TruthyStatus(filters.status) /\ filters.status \notin StatusEnum
          THEN /\ Idle(p)
               /\ \A s \in Slots : s < p => ~Idle(s)
               /\ ReturnFrom(p, c, [kind |-> "plain", items |-> <<>>], FALSE, {})
          ELSE IF TruthyDate(filters.dueDate) /\ isNaN(DateOf(filters.dueDate))
            THEN /\ Idle(p)
                 /\ \A s \in Slots : s < p => ~Idle(s)
                 /\ ThrowFrom(p, c, "ValidationError", 400, "Invalid due date format",
                              "", NoSuchId)
            ELSE Enter(p, c)
  /\ UNCHANGED <<tasks, nextId, cache>>
  /\ CallFrame

\* a filtered read that stores its result under the owner's cache key
FilterFindCaching(p) ==
  /\ proc[p].pc = "filter"
  /\ \E ok \in BOOLEAN :
       IF ok
         THEN LET docs == SortDesc(Match(proc[p].filters, proc[p].userId))
              IN /\ cache' = [cache EXCEPT ![generateTasksCacheKey(proc[p].userId)] =
                                CacheSet(docs, CacheTtlSeconds)]
                 /\ Return(p, Docs(docs), FALSE, {})
         ELSE Throw(p, "DatabaseError", 500, "Error fetching tasks") /\ UNCHANGED cache
  /\ UNCHANGED <<tasks, nextId>>
  /\ TaskFrame

\* lines 215-222: Task.find(match).sort({ createdAt: -1 })
FilterFind(p) ==
  /\ proc[p].pc = "filter"
  /\ \E ok \in BOOLEAN :
       IF ok
         THEN Return(p, Docs(SortDesc(Match(proc[p].filters, proc[p].userId))), FALSE, {})
         ELSE Throw(p, "DatabaseError", 500, "Error fetching tasks")
  /\ UNCHANGED <<tasks, nextId, cache>>
  /\ TaskFrame

\* time passes; the cache drops the entries whose expiry is reached
CacheTick ==
  /\ ticks < MaxTicks
  /\ \E d \in {1, CacheTtlSeconds * 1000} :
       /\ clock' = clock + d
       /\ cache' = [k \in CacheKeys |->
            IF cache[k].present /\ clock + d >= cache[k].exp THEN NoEntry ELSE cache[k]]
  /\ ticks' = ticks + 1
  /\ UNCHANGED <<limVars, tasks, nextId, proc, done, calls>>

(***************************************************************************)
(* Specifications of the task service.                                     *)
(***************************************************************************)
TaskSteps(p) ==
  \/ GetCached(p) \/ GetFind(p) \/ GetSet(p)
  \/ CreateExact(p) \/ CreateSimilar(p) \/ CreateSave(p)
  \/ UpdateFindOne(p) \/ UpdateSave(p)
  \/ DeleteFind(p)
  \/ Invalidate(p)

\* a call of any user with any arguments
Call(p) ==
  \E userId \in Owners :
    \/ CallGetTasks(p, userId)
    \/ \E taskData \in TaskData : CallCreateTask(p, taskData, userId)
    \/ \E taskId \in TaskIds, updates \in Updates : CallUpdateTask(p, taskId, updates, userId)
    \/ \E taskId \in TaskIds : CallDeleteTask(p, taskId, userId)

\* a call made once the call before it has returned
CallAlone(p) ==
  /\ AllIdle
  /\ calls < MaxCalls
  /\ Call(p)
  /\ calls' = calls + 1

\* the calls of one user that race: reads, creations of one payload, the update
\* and the deletion of the first task
RacePayload == [title |-> "A", description |-> Absent, dueDate |-> 0, status |-> Absent]
RaceUpdate == [keys |-> {"status"}, status |-> "completed", dueDate |-> 0]

CallRace(p) ==
  /\ \/ CallGetTasks(p, "U1")
     \/ CallCreateTask(p, RacePayload, "U1")
     \/ CallUpdateTask(p, 1, RaceUpdate, "U1")
     \/ CallDeleteTask(p, 1, "U1")
  /\ calls < MaxRaceCalls
  /\ calls' = calls + 1

\* calls of all users, one after the other, within one millisecond
NextTasksSeq == \E p \in Slots : CallAlone(p) \/ TaskSteps(p)
SpecTasksSeq == LimInit(LimitCfg) /\ [][NextTasksSeq]_vars

\* calls of one user, interleaving freely
NextTasks == (\E p \in Slots : CallRace(p) \/ TaskSteps(p)) \/ CacheTick
SpecTasks == LimInit(LimitCfg) /\ [][NextTasks]_vars

\* the payloads, updates and task ids of the calls of one user
OnePayloads ==
  {[RacePayload EXCEPT !.status = st, !.dueDate = d] :
     st \in {Absent, "completed"}, d \in {0, BadDate}}
OneUpdates == {u \in Updates : u.keys \in {{"status"}, {"owner"}}}
OneIds == {1, 2, NoSuchId}

\* a call of one user, made once the call before it has returned
CallOne(p) ==
  /\ AllIdle
  /\ calls < MaxOneCalls
  /\ \/ CallGetTasks(p, "U1")
     \/ \E taskData \in OnePayloads : CallCreateTask(p, taskData, "U1")
     \/ \E taskId \in OneIds, updates \in OneUpdates :
          CallUpdateTask(p, taskId, updates, "U1")
     \/ \E taskId \in OneIds : CallDeleteTask(p, taskId, "U1")
  /\ calls' = calls + 1

\* calls of one user, one after the other
NextOne == \E p \in Slots : CallOne(p) \/ TaskSteps(p)
SpecOne == LimInit(LimitCfg) /\ [][NextOne]_vars

\* the payloads of the creations that precede a filtered read
FilterPayloads ==
  [ title : Titles, description : {Absent}, dueDate : {DayMs, DayMs + 1},
    status : {Absent, "completed"} ]

\* a creation or a filtered read made once the call before it has returned
CallFiltered(p) ==
  /\ AllIdle
  /\ calls < MaxFilterCalls
  /\ \E userId \in Owners :
       \/ \E taskData \in FilterPayloads : CallCreateTask(p, taskData, userId)
       \/ \E filters \in Filters : CallGetFilteredTasks(p, filters, userId)
  /\ calls' = calls + 1

\* creations and filtered reads of all users, one after the other
NextFilter ==
  \E p \in Slots :
    \/ CallFiltered(p)
    \/ CreateExact(p) \/ CreateSimilar(p) \/ CreateSave(p) \/ Invalidate(p)
    \/ FilterFind(p)
SpecFilter == LimInit(LimitCfg) /\ [][NextFilter]_vars

(***************************************************************************)
(* Properties of the task service.                                         *)
(***************************************************************************)
Mutations == {"createTask", "updateTask", "deleteTask"}

\* the repository's tasks of an owner as getTasks lists them
CurrentTasks(o) == SortDesc({t \in tasks : t.owner = o})

\* the call in done was the last one and it succeeded
Succeeded(ops) == AllIdle /\ done.op \in ops /\ done.out = "ok"

NotOwned(c) == \E t \in tasks : t._id = c.taskId /\ t.owner # c.userId
\* the call in done was the last one, an update or a delete of another user's task
EndedNotOwned == AllIdle /\ done.op \in {"updateTask", "deleteTask"} /\ NotOwned(done)
\* the task an update or a delete names does not exist
Missing(c) == c.taskId # BadId /\ \A t \in tasks : t._id # c.taskId

NotFound(d) ==
  /\ d.out = "error" /\ d.name = "NotFoundError"
  /\ d.statusCode = 404 /\ d.message = "Task not found"

\* C5 (as the specification states it): an updateTask or deleteTask by a user on
\* a task of another user ends with NotFoundError 'Task not found' (a repository
\* failure, which ends it with a DatabaseError, apart).
C5_AlwaysNotFound == EndedNotOwned => (NotFound(done) \/ done.name = "DatabaseError")

C5_Inv ==
  /\ done.out = "error" => done.val = NoVal
  /\ EndedNotOwned
       => (done.out = "error" /\ done.name \in {"NotFoundError", "DatabaseError", "ValidationError"})
  /\ (EndedNotOwned /\ done.name = "ValidationError")
       => (done.op = "updateTask" /\ done.message = "Invalid updates")

C5_Step ==
  /\ \A p \in Slots :
       (/\ proc[p].pc \in {"findOne", "findOneAndDelete"}
        /\ proc'[p] # proc[p]
        /\ NotOwned(proc[p]) \/ Missing(proc[p]))
         => /\ tasks' = tasks
            /\ proc'[p].pc = "idle"
            /\ done'.val = NoVal
            /\ NotFound(done') \/ done'.name = "DatabaseError"
  /\ (done' # done /\ done'.out = "error") => tasks' = tasks

\* C5 (amended): an updateTask whose updates hold allow-listed keys only, and a
\* deleteTask, by a user on a task of another user end exactly as on an id that
\* does not exist: NotFoundError 'Task not found' (or the DatabaseError of a failed
\* lookup), no data returned, the repository unchanged. An updateTask with a key
\* outside the allow-list ends with ValidationError 'Invalid updates' instead, and
\* it too returns no data and changes nothing.
C5_Isolation == []C5_Inv /\ [][C5_Step]_vars

\* C5 witness: a call on another user's task ended with NotFoundError and the
\* task is still there
C5_Witness == EndedNotOwned /\ NotFound(done)

\* the description a payload or a document carries, absent read as null
DescriptionOf(x) == IF x = Absent THEN Null ELSE x
\* the status a payload carries, absent read as 'pending'
StatusOf(x) == IF x = Absent THEN "pending" ELSE x

\* task t of the owner has the title, description, dueDate and status of the payload
SameTask(t, c) ==
  /\ t.owner = c.userId
  /\ t.title = c.taskData.title
  /\ DescriptionOf(t.description) = DescriptionOf(c.taskData.description)
  /\ t.dueDate = c.taskData.dueDate
  /\ t.status = StatusOf(c.taskData.status)

\* the slot's createTask takes a step from one of these positions
CreateStep(p, pcs) ==
  proc[p].op = "createTask" /\ proc[p].pc \in pcs /\ proc'[p] # proc[p]

Conflict(d, reason) == d.out = "error" /\ d.statusCode = 409 /\ d.reason = reason

\* the slot's call ends at this step with a conflict of this reason
EndsInConflict(p, reason) == proc'[p].pc = "idle" /\ Conflict(done', reason)
\* the slot's call ends at this step with the DatabaseError of a failed query
EndsInFailure(p) == proc'[p].pc = "idle" /\ done'.name = "DatabaseError"

C6_Step ==
  \A p \in Slots :
    /\ (CreateStep(p, {"exact"}) /\ \E t \in tasks : SameTask(t, proc[p]))
         => /\ tasks' = tasks
            /\ \/ /\ EndsInConflict(p, "Exact task match")
                  /\ \E t \in tasks : SameTask(t, proc[p]) /\ t._id = done'.existingTaskId
               \/ EndsInFailure(p)
    /\ (CreateStep(p, {"exact", "similar"})
          /\ \A t \in tasks : t.owner # proc[p].userId)
         => (proc'[p].pc \in {"similar", "save"} \/ EndsInFailure(p))

\* C6 (as the specification states it): a createTask whose owner already has a
\* task of the same title, description (absent read as null), dueDate and status
\* (absent read as 'pending') ends at the exact-match query with a 409 conflict
\* that carries that task's id and the reason 'Exact task match' and inserts
\* nothing; tasks of other owners never stop a createTask at its duplicate queries.
C6_ExactDuplicate == [][C6_Step]_vars

\* task t of the owner is pending, has the payload's title and a due date at most
\* 24 hours from the payload's
NearTask(t, c) ==
  /\ t.owner = c.userId
  /\ t.title = c.taskData.title
  /\ t.status = "pending"
  /\ t.dueDate - c.taskData.dueDate <= DayMs
  /\ c.taskData.dueDate - t.dueDate <= DayMs

\* a conflict of the near-duplicate rule names a pending task of the title within
\* 24 hours of the payload's due date
NamesNearTask(p) ==
  EndsInConflict(p, "Same title and timeframe")
    => \E t \in tasks : NearTask(t, proc[p]) /\ t._id = done'.existingTaskId

C7_OriginalStep ==
  \A p \in Slots :
    /\ (CreateStep(p, {"exact", "similar"}) /\ \E t \in tasks : NearTask(t, proc[p]))
         => \/ proc[p].pc = "exact" /\ proc'[p].pc = "similar"
            \/ EndsInConflict(p, "Same title and timeframe")
            \/ EndsInFailure(p)
    /\ CreateStep(p, {"exact", "similar"}) => NamesNearTask(p)

\* C7 (as the specification states it): a createTask whose owner has a pending
\* task of the same title due at most 24 hours before or after the payload's due
\* date ends with a 409 conflict of reason 'Same title and timeframe', whatever
\* the payload's description and status; a completed task never triggers the rule.
C7_AlwaysSameTitleAndTimeframe == [][C7_OriginalStep]_vars

C7_Step ==
  \A p \in Slots :
    /\ (CreateStep(p, {"similar"}) /\ \E t \in tasks : NearTask(t, proc[p]))
         => /\ tasks' = tasks
            /\ EndsInConflict(p, "Same title and timeframe") \/ EndsInFailure(p)
    /\ (CreateStep(p, {"exact"}) /\ \E t \in tasks : NearTask(t, proc[p]))
         => /\ tasks' = tasks
            /\ \/ proc'[p].pc = "similar"
               \/ EndsInConflict(p, "Exact task match")
               \/ EndsInFailure(p)
    /\ (CreateStep(p, {"similar"}) /\ \A t \in tasks : ~NearTask(t, proc[p]))
         => (proc'[p].pc = "save" \/ EndsInFailure(p))
    /\ CreateStep(p, {"exact", "similar"}) => NamesNearTask(p)

\* C7 (amended): a createTask whose exact-match query found no task, and whose
\* owner has a pending task of the same title due at most 24 hours before or
\* after the payload's due date, ends with a 409 conflict of reason 'Same title
\* and timeframe' and inserts nothing, whatever the payload's description and
\* status; when the exact-match query finds a task the conflict's reason is
\* 'Exact task match'; with no such pending task (the nearest 24 hours and 1
\* millisecond away, or completed) and no exact match the call goes on to save.
C7_NearDuplicate == [][C7_Step]_vars

\* C7 witness: the near-duplicate rule rejected a payload due exactly 24 hours
\* from the pending task it names
C7_Witness ==
  /\ AllIdle
  /\ Conflict(done, "Same title and timeframe")
  /\ \E t \in tasks :
       /\ t._id = done.existingTaskId
       /\ t.status = "pending"
       /\ t.dueDate - done.dueDate \in {DayMs, 0 - DayMs}

C9_Inv ==
  \A k \in CacheKeys :
    cache[k].present
      => (clock < cache[k].exp /\ cache[k].exp <= clock + 3600 * 1000)

C9_Step ==
  \A p \in Slots :
    /\ (proc[p].pc = "del" /\ proc'[p].pc = "idle" /\ done'.delOk)
         => ~cache'[<<"tasks", proc[p].userId>>].present
    /\ (proc[p].pc = "get" /\ proc'[p].pc = "idle")
         => /\ cache[<<"tasks", proc[p].userId>>].present
            /\ done'.val.kind = "plain"
            /\ done'.val.items = cache[<<"tasks", proc[p].userId>>].val[2]

\* C9: an entry of the cache, stale or not, is present for less than 3600 seconds
\* after it was written; an invalidation whose delete succeeds removes the
\* owner's entry; and getTasks returns a cached list only from the entry present
\* at that moment. So the stale list a racing getTasks wrote is returned until the
\* next such invalidation or until its 3600-second expiry, never longer.
C9_StaleBounded == []C9_Inv /\ [][C9_Step]_vars

\* C9 witness: with no call in flight and no failed delete, the cache holds a list
\* that differs from the repository's, and the last getTasks returned it
C9_Witness ==
  /\ AllIdle
  /\ done.op = "getTasks" /\ done.out = "ok" /\ done.val.kind = "plain"
  /\ cache[<<"tasks", "U1">>].present
  /\ ~cache[<<"tasks", "U1">>].missed
  /\ done.val.items = cache[<<"tasks", "U1">>].val[2]
  /\ done.val.items # CurrentTasks("U1")

\* two tasks of one owner equal in title, description, dueDate and status
Twins(t, u) ==
  /\ t._id # u._id
  /\ t.owner = u.owner /\ t.title = u.title /\ t.description = u.description
  /\ t.dueDate = u.dueDate /\ t.status = u.status

C10_Step ==
  \A p \in Slots :
    (proc[p].pc = "save" /\ tasks' # tasks)
      => \A t \in tasks' \ tasks : \A u \in tasks : ~Twins(t, u)

\* the error kinds a task operation fails with for a reason other than a
\* repository failure
ClientErrors == {"ValidationError", "NotFoundError", "AppError"}

\* C14 (as the specification states it): a task operation that fails for a reason
\* other than validation, id format, a missing task or a duplicate, that is
\* because a repository call failed, fails with a DatabaseError of status 500;
\* no operation ends with an error of any other kind.
C14_RepositoryFailure ==
  done.out = "error"
    => \/ done.name \in ClientErrors
       \/ done.name = "DatabaseError" /\ done.statusCode = 500

C15_Inv ==
  /\ (done.out = "error" /\ done.logged # {})
       => (done.op = "getTasks" /\ done.name = "DatabaseError" /\ done.logged = {"GET"})
  /\ (Succeeded({"getTasks"}) /\ "GET" \in done.logged)
       => done.val = [kind |-> "docs", items |-> CurrentTasks(done.userId)]

C15_Step ==
  \A p \in Slots :
    /\ (proc[p].pc = "get" /\ "GET" \in proc'[p].logged)
         => (proc'[p].pc = "find" /\ done' = done /\ cache' = cache)
    /\ (proc[p].pc = "set" /\ proc'[p] # proc[p])
         => /\ proc'[p].pc = "idle"
            /\ done'.out = "ok"
            /\ done'.val = [kind |-> "docs", items |-> proc[p].docs]
            /\ "SET" \in done'.logged => cache' = cache
    /\ (proc[p].pc = "del" /\ proc'[p] # proc[p])
         => /\ proc'[p].pc = "idle"
            /\ done'.out = "ok" /\ done'.op = proc[p].op
            /\ done'.val = [kind |-> "docs", items |-> proc[p].docs]
            /\ tasks' = tasks
            /\ "DEL" \in done'.logged => cache'[<<"tasks", proc[p].userId>>].val
                                             = cache[<<"tasks", proc[p].userId>>].val

\* C15: a cache get that fails sends getTasks on to the repository as a miss does,
\* and the call then returns the repository's list of the owner; a cache set that
\* fails leaves the cache as it was and getTasks still returns the list it
\* fetched; a cache delete that fails leaves the entry in place and the mutation
\* still returns its document. A call that logged a cache error fails only when
\* its repository query failed.
C15_CacheNotFatal == []C15_Inv /\ [][C15_Step]_vars

\* C15 witness: a getTasks whose cache get and cache set both failed returned the
\* task created before it
C15_Witness ==
  /\ Succeeded({"getTasks"})
  /\ done.logged = {"GET", "SET"}
  /\ Len(done.val.items) = 1
  /\ done.val.items = CurrentTasks(done.userId)

C16_Inv ==
  (done.op = "updateTask" /\ ~(done.keys \subseteq {"title", "description", "status", "dueDate"}))
    => /\ done.out = "error" /\ done.name = "ValidationError"
       /\ done.message = "Invalid updates" /\ done.statusCode = 400
       /\ done.val = NoVal

C16_Step ==
  \A p \in Slots :
    /\ (proc[p].pc = "idle" /\ proc'[p].op = "updateTask")
         => proc'[p].updates.keys \subseteq {"title", "description", "status", "dueDate"}
    /\ (done' # done /\ done'.op = "updateTask" /\ done'.message = "Invalid updates")
         => (tasks' = tasks /\ cache' = cache /\ proc' = proc)

\* C16: an updateTask whose updates hold a key outside {title, description,
\* status, dueDate} never enters the lookup of the task: it ends in the step that
\* calls it with ValidationError 'Invalid updates' of status 400, and that step
\* leaves the repository and the cache as they were.
C16_InvalidUpdates == []C16_Inv /\ [][C16_Step]_vars

\* C16 witness: an update of the owner's own task that held an allowed key and the
\* key owner was rejected, and the task still has the status it had
C16_Witness ==
  /\ done.op = "updateTask" /\ done.keys = {"status", "owner"}
  /\ done.message = "Invalid updates"
  /\ \E t \in tasks :
       t._id = done.taskId /\ t.owner = done.userId /\ t.status = "pending"

\* the last call was a getFilteredTasks whose dueDate filter does not parse
FilteredBadDate == done.op = "getFilteredTasks" /\ done.filters.dueDate = BadDate

InvalidDueDate(d) ==
  /\ d.out = "error" /\ d.name = "ValidationError"
  /\ d.message = "Invalid due date format" /\ d.statusCode = 400
  /\ d.val = NoVal

\* C17 (as the specification states it): a getFilteredTasks whose dueDate filter
\* is present and does not parse ends with a ValidationError and returns no
\* result set.
C17_AlwaysValidationError == FilteredBadDate => InvalidDueDate(done)

C17_Inv ==
  /\ (FilteredBadDate /\ done.filters.status \in {Absent, "", "pending", "completed"})
       => InvalidDueDate(done)
  /\ (FilteredBadDate /\ done.filters.status \notin {Absent, "", "pending", "completed"})
       => (done.out = "ok" /\ done.val.items = <<>>)

C17_Step ==
  \A p \in Slots :
    /\ proc'[p].pc = "filter" => proc'[p].filters.dueDate # BadDate
    /\ (done' # done /\ done'.op = "getFilteredTasks" /\ done'.filters.dueDate = BadDate)
         => (tasks' = tasks /\ proc' = proc)

\* C17 (amended): a getFilteredTasks whose dueDate filter is non-empty and does
\* not parse, and whose status filter is absent, empty, 'pending' or 'completed',
\* ends with ValidationError 'Invalid due date format' of status 400 before any
\* repository access and returns no result set; when the status filter holds
\* another value the call returns the empty list instead, the due date not being
\* looked at.
C17_InvalidDueDate == []C17_Inv /\ [][C17_Step]_vars

\* C17 witness: with a task of the owner in the repository, a filtered read of
\* status 'pending' and an unparseable due date ended with the ValidationError
C17_Witness ==
  /\ FilteredBadDate /\ done.filters.status = "pending"
  /\ InvalidDueDate(done)
  /\ \E t \in tasks : t.owner = done.userId /\ t.status = "pending"

\* the tasks a filtered read of these filters by this owner is to return
Expected(filters, owner) ==
  {t \in tasks :
     /\ t.owner = owner
     /\ filters.status \in {"pending", "completed"} => t.status = filters.status
     /\ filters.dueDate \notin {NoDate, EmptyDate} => t.dueDate <= filters.dueDate}

ItemsOf(val) == {val.items[i] : i \in 1..Len(val.items)}

C18_Inv ==
  /\ (Succeeded({"getFilteredTasks"})
        /\ done.filters.status \in {Absent, "", "pending", "completed"})
       => /\ ItemsOf(done.val) = Expected(done.filters, done.userId)
          /\ Len(done.val.items) = Cardinality(Expected(done.filters, done.userId))
  /\ (done.op = "getFilteredTasks"
        /\ done.filters.status \notin {Absent, "", "pending", "completed"})
       => (done.out = "ok" /\ done.val.items = <<>>)
  /\ (done.op = "getFilteredTasks" /\ done.out = "ok")
       => \A t \in ItemsOf(done.val) : t.owner = done.userId

BothRules(t, c) == SameTask(t, c) /\ NearTask(t, c)

C19_Step ==
  \A p \in Slots :
    /\ (CreateStep(p, {"exact"}) /\ \E t \in tasks : BothRules(t, proc[p]))
         => /\ tasks' = tasks
            /\ \/ /\ EndsInConflict(p, "Exact task match")
                  /\ \E t \in tasks : BothRules(t, proc[p]) /\ t._id = done'.existingTaskId
               \/ EndsInFailure(p)
    /\ CreateStep(p, {"similar"}) => \A t \in tasks : ~SameTask(t, proc[p])
    /\ (proc[p].op = "createTask" /\ EndsInConflict(p, "Same title and timeframe"))
         => proc[p].pc = "similar"

\* C19 (as the specification states it): createTask runs its exact-match query
\* first; when a task of the owner satisfies both rules for the payload the call
\* ends there with a 409 conflict of reason 'Exact task match' that carries the
\* id of such a task; and the near-duplicate query is run only when the owner has
\* no task equal to the payload.
C19_ExactFirst == [][C19_Step]_vars

\* C10 (as the specification states it, for calls made one after the other): a
\* createTask never saves a task equal in title, description, dueDate and status
\* to a task its owner already has, so of two calls with one payload exactly one
\* succeeds.
C10_SequentialExactlyOne == [][C10_Step]_vars

\* C10, the race: two createTask calls of one payload that both ran their
\* duplicate queries before either saved left two equal pending tasks
C10_RaceTwins == \E t \in tasks, u \in tasks : Twins(t, u) /\ t.status = "pending"

C23_Step ==
  \A p \in Slots :
    LET k == <<"tasks", proc[p].userId>>
    IN /\ (proc[p].pc = "get" /\ proc'[p].pc = "idle")
            => /\ cache[k].present
               /\ done'.out = "ok"
               /\ done'.val = [kind |-> "plain", items |-> cache[k].val[2]]
               /\ cache' = cache /\ tasks' = tasks
       /\ (proc[p].pc = "get" /\ proc'[p].pc = "find")
            => /\ ~cache[k].present \/ "GET" \in proc'[p].logged
               /\ cache' = cache /\ tasks' = tasks
       /\ (proc[p].pc = "find" /\ proc'[p].pc = "set")
            => LET docs == proc'[p].docs
               IN /\ {docs[i] : i \in 1..Len(docs)} = {t \in tasks : t.owner = proc[p].userId}
                  /\ \A i, j \in 1..Len(docs) : i < j => docs[i]._id > docs[j]._id
                  /\ cache' = cache /\ tasks' = tasks
       /\ (proc[p].pc = "set" /\ proc'[p].pc = "idle")
            => /\ done'.out = "ok"
               /\ done'.val.items = proc[p].docs
               /\ tasks' = tasks
               /\ \A j \in CacheKeys : j # k => cache'[j] = cache[j]
               /\ "SET" \notin done'.logged
                    => cache'[k] = [present |-> TRUE, val |-> <<"json", proc[p].docs>>,
                                    exp |-> clock + 3600 * 1000, missed |-> FALSE]

\* C23: getTasks(owner) that finds an entry under tasks:<owner> returns the list
\* of that entry and neither queries the repository nor writes the cache. When it
\* finds none (or the cache read fails) it queries the repository for the owner's
\* tasks, newest first, stores that list under tasks:<owner> with a time to live
\* of 3600 seconds unless the cache write fails (the failure C15 is about), and
\* returns the list.
C23_ReadThrough == [][C23_Step]_vars

\* C23 witness: a getTasks returned the one task of the owner from the entry an
\* earlier getTasks stored
C23_Witness ==
  /\ Succeeded({"getTasks"})
  /\ done.val.kind = "plain"
  /\ Len(done.val.items) = 1
  /\ cache[<<"tasks", done.userId>>].present
  /\ cache[<<"tasks", done.userId>>].val[2] = done.val.items
  /\ done.logged = {}

\* the payloads and the updates that differ in their due date alone
DuePayloads == {[RacePayload EXCEPT !.dueDate = d] : d \in {0, BadDate}}
DueUpdates ==
  {[keys |-> {"dueDate"}, status |-> Absent, dueDate |-> d] : d \in {DayMs, BadDate, EmptyDate}}

DueFilters == [status : {Absent, "pending"}, dueDate : {NoDate, DayMs, BadDate}]

\* a call of one user, made once the call before it has returned: a read, a
\* creation, an update of the due date of the first task, a filtered read
CallDue(p) ==
  /\ AllIdle
  /\ calls < MaxDueCalls
  /\ \/ CallGetTasks(p, "U1")
     \/ \E taskData \in DuePayloads : CallCreateTask(p, taskData, "U1")
     \/ \E updates \in DueUpdates : CallUpdateTask(p, 1, updates, "U1")
     \/ \E filters \in DueFilters : CallGetFilteredTasks(p, filters, "U1")
  /\ calls' = calls + 1

\* reads, creations, due-date updates and filtered reads of one user, one after
\* the other
NextDue ==
  \E p \in Slots :
    \/ CallDue(p)
    \/ GetCached(p) \/ GetFind(p) \/ GetSet(p)
    \/ CreateExact(p) \/ CreateSimilar(p) \/ CreateSave(p)
    \/ UpdateFindOne(p) \/ UpdateSave(p)
    \/ Invalidate(p)
    \/ FilterFind(p)
SpecDue == LimInit(LimitCfg) /\ [][NextDue]_vars

\* the call in slot p is an updateTask that names a dueDate that is no date
UnparseableUpdate(p) ==
  /\ proc[p].op = "updateTask"
  /\ "dueDate" \in proc[p].updates.keys
  /\ proc[p].updates.dueDate \in {BadDate, EmptyDate}

C24_Inv ==
  /\ \A p \in Slots : proc[p].op = "createTask" => proc[p].taskData.dueDate # BadDate
  /\ \A p \in Slots : UnparseableUpdate(p) => proc[p].pc \in {"findOne", "updsave"}
  /\ (done.op = "createTask" /\ done.dueDate = 0 - 1)
       => /\ done.out = "error"
          /\ done.name = "ValidationError" /\ done.statusCode = 400

C24_Step ==
  /\ (done' # done /\ done'.op = "createTask" /\ done'.dueDate = 0 - 1)
       => tasks' = tasks /\ cache' = cache /\ proc' = proc /\ nextId' = nextId
  /\ \A p \in Slots :
       (UnparseableUpdate(p) /\ proc'[p] # proc[p])
         => /\ tasks' = tasks /\ cache' = cache
            /\ proc'[p].pc = "idle"
                 => /\ done'.out = "error"
                    /\ (\E t \in tasks : t._id = proc[p].taskId /\ t.owner = proc[p].userId)
                         => \/ done'.name = "ValidationError" /\ done'.statusCode = 400
                            \/ done'.name = "DatabaseError" /\ proc[p].pc = "findOne"

\* C24: a due date that does not parse is a validation failure that changes
\* nothing. createTask with such a dueDate throws a ValidationError (400) before
\* its first await: no call with such a payload is ever at a query or at the
\* insert, and tasks and cache are as before. updateTask that names such a
\* dueDate (a string that is no date, or the empty string) never reaches its
\* cache invalidation and changes neither tasks nor cache; on an existing task of
\* the caller it ends in a ValidationError (400), unless the lookup itself fails.
C24_UnparseableDueDate == []C24_Inv /\ [][C24_Step]_vars

\* C24 witness: updateTask with a dueDate that does not parse, on a task the
\* caller owns, threw the ValidationError of the due date; the task is there and
\* so is the list an earlier getTasks cached
C24_Witness ==
  /\ AllIdle
  /\ done.op = "updateTask" /\ done.out = "error"
  /\ done.name = "ValidationError" /\ done.message = "Invalid due date format"
  /\ done.keys = {"dueDate"}
  /\ \E t \in tasks : t._id = done.taskId /\ t.owner = done.userId /\ t.dueDate >= 0
  /\ cache[<<"tasks", done.userId>>].present
  /\ Len(cache[<<"tasks", done.userId>>].val[2]) = 1

C26_Inv == \A t \in tasks : t._id < nextId /\ t.owner \in {"U1", "U2"}

C26_Step ==
  /\ \A t \in tasks, u \in tasks' : t._id = u._id => t.owner = u.owner
  /\ \A u \in tasks' :
       (\A t \in tasks : t._id # u._id) => u._id = nextId /\ nextId' = nextId + 1
  /\ \A p \in Slots :
       /\ (proc[p].op = "updateTask" /\ proc'[p] # proc[p] /\ proc[p].pc # "updsave")
            => tasks' = tasks
       /\ (proc[p].pc = "updsave" /\ proc'[p] # proc[p])
            => \/ tasks' = tasks /\ proc'[p].pc = "idle" /\ done'.out = "error"
               \/ /\ proc'[p].pc = "del"
                  /\ \E t \in tasks, u \in tasks' :
                       /\ t._id = proc[p].taskId /\ t.owner = proc[p].userId
                       /\ tasks' = (tasks \ {t}) \cup {u}
                       /\ u._id = t._id /\ u.owner = t.owner
                       /\ u.title = t.title /\ u.description = t.description
                       /\ u.status = IF "status" \in proc[p].updates.keys
                                       THEN proc[p].updates.status ELSE t.status
                       /\ u.dueDate = IF "dueDate" \in proc[p].updates.keys
                                        THEN proc[p].updates.dueDate ELSE t.dueDate

C27_Step ==
  /\ \A p \in Slots :
       ((proc[p].op = "getFilteredTasks" \/ proc'[p].op = "getFilteredTasks")
          /\ proc'[p] # proc[p])
         => tasks' = tasks /\ cache' = cache /\ nextId' = nextId
  /\ (done' # done /\ done'.op = "getFilteredTasks")
       => tasks' = tasks /\ cache' = cache /\ nextId' = nextId
  /\ (/\ done.op = "getFilteredTasks" /\ done'.op = "getFilteredTasks"
      /\ done'.userId = done.userId /\ done'.filters = done.filters
      /\ done.out = "ok" /\ done'.out = "ok")
       => done'.val = done.val

\* C27: no step of getFilteredTasks changes the repository or an entry of the
\* cache, and with calls made one after the other, a getFilteredTasks that
\* returns right after a getFilteredTasks of the same filters and owner returned
\* (no other call, so no write, in between) returns the same list.
C27_FilterReadOnly == [][C27_Step]_vars

\* C27 witness: a getFilteredTasks returned one task and left the cached list of
\* the owner in place; a second call with the same filters and owner is at its
\* query
C27_Witness ==
  \E p \in Slots :
    /\ proc[p].op = "getFilteredTasks" /\ proc[p].pc = "filter"
    /\ done.op = "getFilteredTasks" /\ done.out = "ok"
    /\ done.userId = proc[p].userId /\ done.filters = proc[p].filters
    /\ Len(done.val.items) = 1
    /\ cache[<<"tasks", done.userId>>].present

\* some owner has two tasks equal in title, description, dueDate and status
SomeTwins(set) ==
  \E t \in set, u \in set :
    /\ t._id # u._id /\ t.owner = u.owner
    /\ t.title = u.title /\ t.description = u.description
    /\ t.dueDate = u.dueDate /\ t.status = u.status

C31_Inv ==
  /\ \A p \in Slots :
       proc[p].op = "updateTask" => proc[p].pc \in {"findOne", "updsave", "del"}
  /\ \A p \in Slots :
       proc[p].pc \in {"exact", "similar", "save"} => proc[p].op = "createTask"
  /\ done.op = "updateTask" => done.statusCode # 409 /\ done.reason = ""

C31_Step ==
  (~SomeTwins(tasks) /\ SomeTwins(tasks'))
    => \E p \in Slots :
         /\ proc[p].op = "updateTask"
         /\ proc[p].pc = "updsave" /\ proc'[p].pc = "del"

\* C31: the duplicate queries are steps of createTask alone: updateTask goes from
\* its lookup to its save and to the invalidation, and never ends in a conflict.
\* With the calls of one owner made one after the other and payloads that carry
\* no description, the one step that takes the owner from no two equal tasks to
\* two tasks equal in title, description, dueDate and status is the save of an
\* updateTask (the witness shows that it happens).
C31_UpdateSkipsDuplicates == []C31_Inv /\ [][C31_Step]_vars

\* C31 witness: an updateTask succeeded and the task it updated equals another
\* task of the owner in title, description, dueDate and status
C31_Witness ==
  /\ Succeeded({"updateTask"})
  /\ \E t \in tasks, u \in tasks :
       /\ t._id = done.taskId /\ u._id # t._id
       /\ t.owner = done.userId /\ u.owner = t.owner
       /\ t.title = u.title /\ t.description = u.description
       /\ t.dueDate = u.dueDate /\ t.status = u.status

C32_Step ==
  /\ \A p \in Slots :
       /\ (/\ proc[p].op \in {"createTask", "updateTask", "deleteTask"}
           /\ proc[p].pc # "idle" /\ proc'[p].pc = "idle" /\ done'.out = "error")
            => tasks' = tasks /\ cache' = cache /\ proc[p].pc # "del"
       /\ (proc[p].pc = "del" /\ proc'[p] # proc[p])
            => proc'[p].pc = "idle" /\ done'.out = "ok" /\ tasks' = tasks
       /\ (proc[p].pc # "del" /\ proc'[p].pc = "del")
            => /\ proc[p].pc \in {"save", "updsave", "findOneAndDelete"}
               /\ proc[p].pc = "save" => tasks' # tasks /\ tasks \subseteq tasks'
               /\ proc[p].pc = "findOneAndDelete" => tasks' # tasks /\ tasks' \subseteq tasks
  /\ (calls' # calls /\ done' # done)
       => /\ done'.out = "error" \/ done'.op = "getFilteredTasks"
          /\ tasks' = tasks /\ cache' = cache
  /\ tasks' # tasks
       => \E p \in Slots : proc[p].pc # "del" /\ proc'[p].pc = "del"
  /\ \A k \in CacheKeys :
       (cache[k].present /\ ~cache'[k].present)
         => \E p \in Slots :
              /\ proc[p].pc = "del" /\ proc'[p].pc = "idle"
              /\ k = <<"tasks", proc[p].userId>>

\* C32: with the calls of one owner made one after the other, the step in which a
\* createTask, updateTask or deleteTask fails (at the call itself or after an
\* await) leaves the tasks and the cache as they were, and the call has written
\* nothing before: the one step of a call that writes the tasks leads to the
\* invalidation, from which the call returns successfully; and a cache entry is
\* deleted by an invalidation only.
C32_FailureChangesNothing == [][C32_Step]_vars

\* C32 witness: a createTask was refused as a duplicate; the task it collided with
\* is there, and so is the list an earlier getTasks cached
C32_Witness ==
  /\ AllIdle
  /\ done.op = "createTask" /\ done.out = "error" /\ done.statusCode = 409
  /\ \E t \in tasks : t._id = done.existingTaskId
  /\ cache[<<"tasks", done.userId>>].present
  /\ Len(cache[<<"tasks", done.userId>>].val[2]) = 1

\* the call in slot p, invoked for owner o, takes a step
StepFor(p, o) == proc[p].pc # "idle" /\ proc[p].userId = o /\ proc'[p] # proc[p]

C33_Step ==
  /\ \A o \in {"U1", "U2"} :
       {t \in tasks' : t.owner = o} # {t \in tasks : t.owner = o}
         => \E p \in Slots : StepFor(p, o)
  /\ \A k \in DOMAIN cache :
       cache'[k] # cache[k]
         => \E p \in Slots :
              /\ StepFor(p, k[2]) /\ k[1] = "tasks"
              /\ proc[p].pc \in {"set", "del"}
  /\ DOMAIN cache' = DOMAIN cache

\* C33: a step that changes the tasks of an owner is a step of a call invoked for
\* that owner, and a step that changes the cache entry tasks:<owner> is the cache
\* write of a getTasks or the invalidation of a mutation invoked for that owner.
\* So a call for owner A leaves the tasks and the cache entry of every other
\* owner as they were.
C33_OwnerFrame == [][C33_Step]_vars

\* C33 witness: a mutation of U1 succeeded and deleted the key tasks:U1, and the
\* list getTasks cached for U2 is still there
C33_Witness ==
  /\ Succeeded({"createTask", "updateTask", "deleteTask"})
  /\ done.userId = "U1" /\ done.delOk
  /\ ~cache[<<"tasks", "U1">>].present
  /\ cache[<<"tasks", "U2">>].present

====
